---- MODULE Spec2Model ----
(***************************************************************************)
(* A model of veralux-audio-stack/whisper_server.py: the two transcription *)
(* endpoints (/transcribe and /transcribe_file), the admission semaphore   *)
(* they share, the temporary audio object each request writes and removes, *)
(* the confidence-based retry, and the pure helpers _transcribe_file uses. *)
(*                                                                         *)
(* Text is a sequence of one-character strings.  A log-probability is an   *)
(* integer number of 1/100000, one decimal more than the four the code     *)
(* rounds to; a time is an integer number of 1/100 s, so the 0.01 s floor  *)
(* of a segment is 1.                                                      *)
(***************************************************************************)
EXTENDS Integers, Sequences, FiniteSets, TLC

(***************************************************************************)
(* Bounds of the model.                                                    *)
(***************************************************************************)
\* Requests that arrive, concurrently, during one run of the server.
NumRequests == 2
\* WHISPER_MAX_CONCURRENT, the worker budget the server is started with (an
\* environment setting; 2 when it is not set).
MAX_CONCURRENT == 1

(***************************************************************************)
(* Configuration read from the environment at import time (the defaults).  *)
(***************************************************************************)
MAX_BODY_BYTES == 26214400
WHISPER_BEAM_SIZE == 5
WHISPER_RETRY_BEAM_SIZE_DEFAULT == 10
\* -0.5
WHISPER_RETRY_LOGPROB_THRESHOLD == -50000
WHISPER_LANGUAGE == <<"e", "n">>
\* The default prompt is a long sentence; its content is never inspected.
WHISPER_INITIAL_PROMPT == <<"P", "h", "o", "n", "e">>
\* vad_filter, no_speech_threshold (0.6), condition_on_previous_text,
\* compression_ratio_threshold (2.4), log_prob_threshold (-1.0) and
\* repetition_penalty (1.1), the four numbers in tenths.
FixedThresholds ==
    [vad_filter |-> TRUE, no_speech_threshold |-> 6,
     condition_on_previous_text |-> FALSE,
     compression_ratio_threshold |-> 24, log_prob_threshold |-> -10,
     repetition_penalty |-> 11]

\* Python's None, for a text-valued argument.
None == <<"<None>">>

Requests == 1 .. NumRequests

(***************************************************************************)
(* Text helpers (str.strip, str.lower, str.startswith, "".join).           *)
(***************************************************************************)
IsSpace(c) == c \in {" ", "\t", "\n"}

UpperCase == <<"A", "B", "C", "D", "E", "F", "G", "H", "I", "J", "K", "L", "M",
               "N", "O", "P", "Q", "R", "S", "T", "U", "V", "W", "X", "Y", "Z">>
LowerCase == <<"a", "b", "c", "d", "e", "f", "g", "h", "i", "j", "k", "l", "m",
               "n", "o", "p", "q", "r", "s", "t", "u", "v", "w", "x", "y", "z">>

LowerChar(c) ==
    IF \E i \in 1 .. Len(UpperCase) : UpperCase[i] = c
    THEN LowerCase[CHOOSE i \in 1 .. Len(UpperCase) : UpperCase[i] = c]
    ELSE c

Lower(s) == [i \in 1 .. Len(s) |-> LowerChar(s[i])]

\* s[a .. b], empty when b < a.
Slice(s, a, b) == IF b < a THEN << >> ELSE SubSeq(s, a, b)

\* str.lstrip / str.rstrip with a set of characters given by a predicate.
RECURSIVE LStripSpace(_)
LStripSpace(s) ==
    IF s # << >> /\ IsSpace(Head(s)) THEN LStripSpace(Tail(s)) ELSE s

RECURSIVE RStripIn(_, _)
RStripIn(s, chars) ==
    IF s # << >> /\ s[Len(s)] \in chars
    THEN RStripIn(Slice(s, 1, Len(s) - 1), chars)
    ELSE s

Strip(s) == RStripIn(LStripSpace(s), {" ", "\t", "\n"})

StartsWith(s, p) == Len(p) <= Len(s) /\ Slice(s, 1, Len(p)) = p

\* "".join(chunks)
RECURSIVE Concat(_)
Concat(chunks) ==
    IF chunks = << >> THEN << >> ELSE Head(chunks) \o Concat(Tail(chunks))

\* sep.join(chunks)
RECURSIVE JoinWith(_, _)
JoinWith(chunks, sep) ==
    IF chunks = << >> THEN << >>
    ELSE IF Len(chunks) = 1 THEN chunks[1]
    ELSE chunks[1] \o sep \o JoinWith(Tail(chunks), sep)

(***************************************************************************)
(* _deduplicate_text.                                                      *)
(*                                                                         *)
(* Pass 1 is re.sub with IGNORECASE of the pattern "a lazy group of eight   *)
(* or more characters, whitespace, then one or more times the group and    *)
(* whitespace", replaced by the group.  It is computed as the backtracking *)
(* matcher computes it: at each position the                               *)
(* shortest group of at least MinPhraseLen characters (none a newline)     *)
(* that is followed, after the longest run of whitespace that still works, *)
(* by a case-insensitive copy of itself; then, greedily, further copies    *)
(* each taken right after all the whitespace that follows the previous     *)
(* one.  The match is replaced by the group and the scan goes on after it. *)
(***************************************************************************)
MinPhraseLen == 8

\* The position after the longest whitespace run that starts at p.
RECURSIVE SkipSpace(_, _)
SkipSpace(s, p) ==
    IF p <= Len(s) /\ IsSpace(s[p]) THEN SkipSpace(s, p + 1) ELSE p

\* \1 under IGNORECASE at position p.
BackrefAt(s, p, g) ==
    /\ p + Len(g) - 1 <= Len(s)
    /\ Lower(Slice(s, p, p + Len(g) - 1)) = Lower(g)

\* The whitespace counts w for which \s{w} then \1 match after the group.
GapsAfter(s, i, n) ==
    LET g == Slice(s, i, i + n - 1)
        most == SkipSpace(s, i + n) - (i + n)
    IN  {w \in 0 .. most : BackrefAt(s, i + n + w, g)}

\* The group lengths with which the pattern matches at i.
PhraseLens(s, i) ==
    {n \in MinPhraseLen .. (Len(s) - i + 1) :
        /\ \A k \in i .. (i + n - 1) : s[k] # "\n"
        /\ GapsAfter(s, i, n) # {}}

\* (?:\1\s*)+ from p on, one copy already matched: where the match ends.
RECURSIVE RepeatEnd(_, _, _)
RepeatEnd(s, p, g) ==
    LET q == SkipSpace(s, p)
    IN  IF BackrefAt(s, q, g) THEN RepeatEnd(s, q + Len(g), g) ELSE q

SetMin(S) == CHOOSE x \in S : \A y \in S : x <= y
SetMax(S) == CHOOSE x \in S : \A y \in S : x >= y

RECURSIVE CollapseFrom(_, _)
CollapseFrom(s, i) ==
    IF i > Len(s) THEN << >>
    ELSE IF PhraseLens(s, i) = {} THEN <<s[i]>> \o CollapseFrom(s, i + 1)
    ELSE LET n == SetMin(PhraseLens(s, i))
             g == Slice(s, i, i + n - 1)
             w == SetMax(GapsAfter(s, i, n))
         IN  g \o CollapseFrom(s, RepeatEnd(s, i + n + w + n, g))

CollapseRepeats(s) == CollapseFrom(s, 1)

\* re.split(r'(?<=[.?!])\s+', s) for a stripped s.
SentenceEnd == {".", "?", "!"}

SplitPoints(s) ==
    {p \in 2 .. Len(s) : s[p - 1] \in SentenceEnd /\ IsSpace(s[p])}

RECURSIVE SplitSentences(_)
SplitSentences(s) ==
    IF SplitPoints(s) = {} THEN <<s>>
    ELSE LET p == SetMin(SplitPoints(s))
         IN  <<Slice(s, 1, p - 1)>>
                 \o SplitSentences(Slice(s, SkipSpace(s, p), Len(s)))

\* A loop that drops only the sentences equal to the first one.
KeepSentencesEqualOnly(first, rest) ==
    SelectSeq(rest, LAMBDA s : Lower(s) # Lower(first))

\* The later sentences kept by the loop of pass 2.
RECURSIVE KeepSentences(_, _)
KeepSentences(first, rest) ==
    IF rest = << >> THEN << >>
    ELSE LET clean == Lower(RStripIn(Head(rest), {"-", " "}))
             keep  == clean # << >> /\ ~StartsWith(Lower(first), clean)
         IN  (IF keep THEN <<Head(rest)>> ELSE << >>)
                 \o KeepSentences(first, Tail(rest))

_deduplicate_text(text) ==
    LET stripped == Strip(text)
        deduped  == CollapseRepeats(stripped)
        pass1    == IF deduped # stripped THEN Strip(deduped) ELSE stripped
        sentences == SplitSentences(pass1)
    IN  IF stripped = << >> THEN stripped
        ELSE IF Len(sentences) <= 1 THEN pass1
        ELSE JoinWith(<<sentences[1]>>
                         \o KeepSentences(sentences[1], Tail(sentences)),
                      <<" ">>)

(***************************************************************************)
(* _transcribe_file: the confidence of an attempt and its result.          *)
(***************************************************************************)
\* max(seg.end - seg.start, 0.01), in 1/100 s.
MinSegDur == 1
\* The confidence of an attempt without segments: -1.0.
NoSegmentsLogprob == -100000

Segment(start, end, text, avg_logprob) ==
    [start |-> start, end |-> end, text |-> text, avg_logprob |-> avg_logprob]

\* (mutant) the duration of a segment as it is, without the floor
SegDurUnfloored(seg) == seg.end - seg.start

SegDur(seg) ==
    IF seg.end - seg.start > MinSegDur THEN seg.end - seg.start ELSE MinSegDur

RECURSIVE TotalDuration(_)
TotalDuration(segs) ==
    IF segs = << >> THEN 0 ELSE SegDur(Head(segs)) + TotalDuration(Tail(segs))

RECURSIVE WeightedLogprob(_)
WeightedLogprob(segs) ==
    IF segs = << >> THEN 0
    ELSE Head(segs).avg_logprob * SegDur(Head(segs))
             + WeightedLogprob(Tail(segs))

\* The nearest integer to a / b, a tie going to the even one (b > 0).
RoundDiv(a, b) ==
    LET q == a \div b
        rem == a % b
    IN  IF 2 * rem < b THEN q
        ELSE IF 2 * rem > b THEN q + 1
        ELSE IF q % 2 = 0 THEN q ELSE q + 1

\* round(a / b, 4) on values counted in 1/100000: the nearest multiple of
\* 10.  (At a tie Python rounds the binary value nearest to a / b, which is
\* never exactly the tie; on the inputs of the model the two agree.)
Round4(a, b) == 10 * RoundDiv(a, 10 * b)

\* The mean of the segments' values, whatever their durations.
AvgLogprobUnweighted(segs) ==
    IF segs = << >> THEN NoSegmentsLogprob
    ELSE Round4(WeightedLogprob([i \in 1 .. Len(segs) |->
                                    [segs[i] EXCEPT !.start = 0, !.end = 100]]),
                100 * Len(segs))

AvgLogprob(segs) ==
    IF TotalDuration(segs) > 0
    THEN Round4(WeightedLogprob(segs), TotalDuration(segs))
    ELSE NoSegmentsLogprob

RawText(segs) == Strip(Concat([i \in 1 .. Len(segs) |-> segs[i].text]))

\* What _transcribe_file returns for the segments the engine produced.
TranscribeResult(segs) ==
    [text |-> _deduplicate_text(RawText(segs)), avg_logprob |-> AvgLogprob(segs)]

\* x or y, for text-valued arguments (None and "" are falsy).
OrElse(x, y) == IF x = None \/ x = << >> THEN y ELSE x

\* The arguments of model.transcribe for one call of _transcribe_file;
\* beam_size 0 stands for "not given" (None).
EngineArgs(path, size, language, prompt, beam_size) ==
    [path |-> path, size |-> size,
     beam_size |-> IF beam_size = 0 THEN WHISPER_BEAM_SIZE ELSE beam_size,
     language |-> OrElse(language, WHISPER_LANGUAGE),
     initial_prompt |-> OrElse(OrElse(prompt, WHISPER_INITIAL_PROMPT), None),
     fixed |-> FixedThresholds]

(***************************************************************************)
(* int(content_length): decimal digits with an optional sign, surrounding  *)
(* whitespace ignored; anything else raises ValueError.                    *)
(***************************************************************************)
Digits == <<"0", "1", "2", "3", "4", "5", "6", "7", "8", "9">>

IsDigit(c) == \E i \in 1 .. Len(Digits) : Digits[i] = c

DigitValue(c) == (CHOOSE i \in 1 .. Len(Digits) : Digits[i] = c) - 1

RECURSIVE DigitsValue(_)
DigitsValue(ds) ==
    IF ds = << >> THEN 0
    ELSE 10 * DigitsValue(Slice(ds, 1, Len(ds) - 1)) + DigitValue(ds[Len(ds)])

Unsigned(t) == IF t # << >> /\ Head(t) \in {"+", "-"} THEN Tail(t) ELSE t

IsIntLiteral(h) ==
    LET ds == Unsigned(Strip(h))
    IN  ds # << >> /\ \A i \in 1 .. Len(ds) : IsDigit(ds[i])

IntValue(h) ==
    LET t == Strip(h)
    IN  IF Head(t) = "-" THEN 0 - DigitsValue(Unsigned(t))
        ELSE DigitsValue(Unsigned(t))

(***************************************************************************)
(* _choose_suffix: the container hint of the temporary object, from the    *)
(* file name when it has a supported extension, else from the content      *)
(* type, else ".wav".                                                      *)
(***************************************************************************)
\* {".wav", ".webm", ".mp3", ".m4a", ".ogg", ".flac"}
Suffixes ==
    {<<".", "w", "a", "v">>,
     <<".", "w", "e", "b", "m">>,
     <<".", "m", "p", "3">>,
     <<".", "m", "4", "a">>,
     <<".", "o", "g", "g">>,
     <<".", "f", "l", "a", "c">>}

\* sub in s
Contains(s, sub) ==
    \E i \in 1 .. Len(s) - Len(sub) + 1 : Slice(s, i, i + Len(sub) - 1) = sub

\* Path(filename).name: the last component, trailing slashes dropped.
PathName(filename) ==
    LET t == RStripIn(filename, {"/"})
        slashes == {i \in 1 .. Len(t) : t[i] = "/"}
    IN  IF slashes = {} THEN t ELSE Slice(t, SetMax(slashes) + 1, Len(t))

\* Path(filename).suffix: the name from its last dot on, when that dot is
\* neither the first nor the last character of the name.
PathSuffix(filename) ==
    LET name == PathName(filename)
        dots == {i \in 1 .. Len(name) : name[i] = "."}
    IN  IF dots # {} /\ 1 < SetMax(dots) /\ SetMax(dots) < Len(name)
        THEN Slice(name, SetMax(dots), Len(name))
        ELSE << >>

\* if filename: (neither None nor "")
Truthy(x) == x # None /\ x # << >>

\* (mutant) the content type looked at before the file name
_choose_suffix_ContentTypeFirst(content_type, filename) ==
    LET ct == Lower(OrElse(content_type, << >>))
        suf == IF Truthy(filename) THEN Lower(PathSuffix(filename)) ELSE << >>
    IN  IF Contains(ct, <<"w", "a", "v">>) THEN <<".", "w", "a", "v">>
        ELSE IF Contains(ct, <<"w", "e", "b", "m">>) THEN <<".", "w", "e", "b", "m">>
        ELSE IF Contains(ct, <<"m", "p", "e", "g">>) \/ Contains(ct, <<"m", "p", "3">>)
        THEN <<".", "m", "p", "3">>
        ELSE IF Contains(ct, <<"o", "g", "g">>) THEN <<".", "o", "g", "g">>
        ELSE IF Contains(ct, <<"f", "l", "a", "c">>) THEN <<".", "f", "l", "a", "c">>
        ELSE IF suf \in Suffixes THEN suf
        ELSE <<".", "w", "a", "v">>

\* (mutant) the extension of the file name taken without the membership test
_choose_suffix_AnyExtension(content_type, filename) ==
    LET ct == Lower(OrElse(content_type, << >>))
        suf == IF Truthy(filename) THEN Lower(PathSuffix(filename)) ELSE << >>
    IN  IF suf # << >> THEN suf
        ELSE IF Contains(ct, <<"w", "a", "v">>) THEN <<".", "w", "a", "v">>
        ELSE IF Contains(ct, <<"w", "e", "b", "m">>) THEN <<".", "w", "e", "b", "m">>
        ELSE IF Contains(ct, <<"m", "p", "e", "g">>) \/ Contains(ct, <<"m", "p", "3">>)
        THEN <<".", "m", "p", "3">>
        ELSE IF Contains(ct, <<"o", "g", "g">>) THEN <<".", "o", "g", "g">>
        ELSE IF Contains(ct, <<"f", "l", "a", "c">>) THEN <<".", "f", "l", "a", "c">>
        ELSE <<".", "w", "a", "v">>

_choose_suffix(content_type, filename) ==
    LET suf == IF Truthy(filename) THEN Lower(PathSuffix(filename)) ELSE << >>
        ct == Lower(OrElse(content_type, << >>))
    IN  IF Truthy(filename) /\ suf \in Suffixes THEN suf
        ELSE IF Contains(ct, <<"w", "a", "v">>) THEN <<".", "w", "a", "v">>
        ELSE IF Contains(ct, <<"w", "e", "b", "m">>) THEN <<".", "w", "e", "b", "m">>
        ELSE IF Contains(ct, <<"m", "p", "e", "g">>) \/ Contains(ct, <<"m", "p", "3">>)
        THEN <<".", "m", "p", "3">>
        ELSE IF Contains(ct, <<"o", "g", "g">>) THEN <<".", "o", "g", "g">>
        ELSE IF Contains(ct, <<"f", "l", "a", "c">>) THEN <<".", "f", "l", "a", "c">>
        ELSE <<".", "w", "a", "v">>

(***************************************************************************)
(* What the environment sends and answers.  Request 1 is the request under *)
(* observation: it ranges over every class of input and of fault.  The     *)
(* other requests are the concurrent load on the gate: well-formed         *)
(* payloads on either endpoint, an engine that answers with a confident    *)
(* or an unconfident transcript or fails.                                  *)
(***************************************************************************)
Observed(r) == r = 1

Endpoints == {"transcribe", "transcribe_file"}

\* A payload is its length: nothing in the server reads the bytes.
BodySizes(r) ==
    IF Observed(r) THEN {0, MAX_BODY_BYTES, MAX_BODY_BYTES + 1} ELSE {1}

\* The Content-Length header of a /transcribe request (None: absent).
ContentLengths(r) ==
    IF Observed(r)
    THEN {None, << >>, <<"a", "b", "c">>, <<"1">>,
          <<"2", "6", "2", "1", "4", "4", "0", "0">>,
          <<"2", "6", "2", "1", "4", "4", "0", "1">>}
    ELSE {None}

\* The language and prompt query parameters a request is sent with: none,
\* both, or both empty (?language=&prompt=).
QueryParams(r) ==
    IF Observed(r)
    THEN {[language |-> None, prompt |-> None],
          [language |-> <<"e", "s">>, prompt |-> <<"H", "o", "l", "a">>],
          [language |-> << >>, prompt |-> << >>]}
    ELSE {[language |-> None, prompt |-> None]}

\* Segment lists the engine may produce.
SegsClear == <<Segment(0, 300, <<"o", "k">>, -10000)>>
SegsAtThreshold == <<Segment(0, 100, <<"n", "o">>, -50000)>>
SegsLow ==
    <<Segment(0, 100, <<"y", "e", "s", " ">>, -80000),
      Segment(100, 200, <<"y", "e", "s">>, -90000)>>
SegsLowToo == <<Segment(0, 200, <<"y", "e", "s", ".">>, -85000)>>
SegsSilence == << >>
SegsBlank == <<Segment(0, 100, <<" ">>, -90000)>>

\* A phrase said once and heard twice; the same phrase heard right; a
\* greeting.
SegsRepeated ==
    <<Segment(0, 100,
              <<"Y", "e", "s", ",", " ", "I", "'", "m", " ", "p", "r", "i",
              "c", "i", "n", "g", " ", "f", "o", "r", " ">>,
              -80000),
      Segment(100, 200,
              <<"Y", "e", "s", ",", " ", "I", "'", "m", " ", "p", "r", "i",
              "c", "i", "n", "g", " ", "f", "o", "r", " ">>,
              -90000)>>
SegsService ==
    <<Segment(0, 200,
              <<"Y", "e", "s", ",", " ", "I", "'", "m", " ", "p", "r", "i",
              "c", "i", "n", "g", " ", "f", "o", "r", " ", "t", "h", "e", " ",
              "s", "e", "r", "v", "i", "c", "e", ".">>,
              -20000)>>
SegsHello ==
    <<Segment(0, 300,
              <<"H", "e", "l", "l", "o", ",", " ", "t", "h", "a", "n", "k",
              "s", " ", "f", "o", "r", " ", "c", "a", "l", "l", "i", "n", "g",
              ".">>,
              -10000)>>

\* What the engine makes of the recordings of two calls and of silence: of
\* the first, SegsRepeated with the initial beam and SegsService with the
\* retry beam.
ScenarioOutputs == {SegsRepeated, SegsService, SegsHello, SegsSilence}

EngineOutputs(r) ==
    IF Observed(r)
    THEN {SegsClear, SegsAtThreshold, SegsLow, SegsLowToo, SegsSilence,
          SegsBlank}
    ELSE {SegsClear, SegsLow}

\* How the storage backend may fail a request ("none": it does not).
CreateFaults(r) ==
    IF Observed(r) THEN {"none", "create", "write"} ELSE {"none"}

RemoveFaults(r) == IF Observed(r) THEN {"none", "remove"} ELSE {"none"}

MayDisconnect(r) == Observed(r)

\* The declared content types (None: no such header) and the file names
\* (None: no file name) _choose_suffix is applied to.
ContentTypes ==
    {None,
     << >>,
     <<"a", "u", "d", "i", "o", "/", "w", "a", "v">>,
     <<"A", "U", "D", "I", "O", "/", "W", "A", "V">>,
     <<"a", "u", "d", "i", "o", "/", "x", "-", "w", "a", "v">>,
     <<"a", "u", "d", "i", "o", "/", "w", "e", "b", "m", ";", "c", "o", "d",
      "e", "c", "s", "=", "o", "p", "u", "s">>,
     <<"a", "u", "d", "i", "o", "/", "m", "p", "e", "g">>,
     <<"a", "u", "d", "i", "o", "/", "m", "p", "3">>,
     <<"a", "u", "d", "i", "o", "/", "m", "4", "a">>,
     <<"a", "u", "d", "i", "o", "/", "o", "g", "g">>,
     <<"a", "u", "d", "i", "o", "/", "f", "l", "a", "c">>,
     <<"a", "p", "p", "l", "i", "c", "a", "t", "i", "o", "n", "/", "o", "c",
      "t", "e", "t", "-", "s", "t", "r", "e", "a", "m">>,
     <<"t", "e", "x", "t", "/", "p", "l", "a", "i", "n">>}

Filenames ==
    {None,
     << >>,
     <<"c", "a", "l", "l", ".", "o", "g", "g">>,
     <<"c", "a", "l", "l", ".", "O", "G", "G">>,
     <<"a", ".", "w", "a", "v">>,
     <<"a", ".", "w", "e", "b", "m">>,
     <<"a", ".", "m", "p", "3">>,
     <<"a", ".", "m", "4", "a">>,
     <<"a", ".", "f", "l", "a", "c">>,
     <<"a", ".", "t", "x", "t">>,
     <<"n", "o", "e", "x", "t">>,
     <<".", "o", "g", "g">>,
     <<"a", ".", "o", "g", "g", ".">>,
     <<"x", ".", "w", "a", "v", "/", "y">>,
     <<"d", "/", "a", ".", "m", "p", "3">>}

\* The texts _deduplicate_text is applied to: up to MaxFragments fragments,
\* with a space between them.
MaxFragments == 3

Fragments ==
    {<<"a", ".", "b", "c", "d", "e", "f", "g", "h", ".">>,
     <<"a", ".">>,
     <<"b", "c", "d", "e", "f", "g", "h", ".">>,
     <<"o", "k">>,
     <<"B", "c", "d", "e", "f", "g", "h", ".">>,
     <<"T", "h", "a", "n", "k", " ", "y", "o", "u", ",">>,
     <<"t", "h", "a", "n", "k", " ", "y", "o", "u">>,
     <<"-">>}

DedupTexts ==
    {JoinWith(t, <<" ">>) :
        t \in UNION {[1 .. n -> Fragments] : n \in 1 .. MaxFragments}}

\* The segments an attempt of _transcribe_file is made of: up to MaxSegments
\* of them, among which one of no length, and some whose log-probability
\* has a fifth decimal.
MaxSegments == 2

SegmentChoices ==
    {Segment(0, 100, <<"a">>, -12347),
     Segment(0, 100, <<"b">>, -12342),
     Segment(100, 100, <<"c">>, -80000),
     Segment(100, 300, <<"d">>, -90000),
     Segment(0, 100, <<"e">>, -10000),
     Segment(0, 300, <<"f">>, -33333),
     Segment(0, 100, <<" ">>, -50000),
     Segment(0, 200, <<"g", ".">>, -85000),
     Segment(300, 100, <<"h">>, -70000)}

SegmentLists == UNION {[1 .. n -> SegmentChoices] : n \in 0 .. MaxSegments}

(***************************************************************************)
(* The state.                                                              *)
(***************************************************************************)
VARIABLES
    pc,                    \* where each request's handler is
    endpoint,              \* the endpoint each request came in on
    body,                  \* len(body) / len(data) once read (NoBody: not yet)
    tmp_path,              \* the handler's tmp_path (NoPath: None)
    query,                 \* the language and prompt parameters sent
    calls,                 \* the engine calls of each request, in order
    response,              \* what the handler returned
    removes,               \* the outcomes of os.remove(tmp_path), in order
    disconnected,          \* whether the client has gone away
    transcribe_semaphore,  \* asyncio.Semaphore(MAX_CONCURRENT)
    store,                 \* the temporary directory: path -> object
    WHISPER_RETRY_BEAM_SIZE,
    content_type,          \* _choose_suffix: its arguments ...
    filename,
    suffix,                \* ... and what it returned (None: not called)
    text,                  \* _deduplicate_text: its argument ...
    deduped,               \* ... and what it returned, applied again and again
    all_segments,          \* _transcribe_file: the segments of the engine ...
    attempt,               \* ... and what it returned, once called
    req,                   \* resolve_speaker_wav: the TTSRequest, ...
    disk,                  \* ... the files and directories there are, ...
    speaker_wav            \* ... and what it returned, once called

\* The state of the server, and the state of the helpers when one of them is
\* looked at alone.
server ==
    <<pc, endpoint, body, tmp_path, query, calls, response, removes,
      disconnected, transcribe_semaphore, store, WHISPER_RETRY_BEAM_SIZE>>

functions ==
    <<content_type, filename, suffix, text, deduped, all_segments, attempt,
      req, disk, speaker_wav>>

vars ==
    <<pc, endpoint, body, tmp_path, query, calls, response, removes,
      disconnected, transcribe_semaphore, store, WHISPER_RETRY_BEAM_SIZE,
      content_type, filename, suffix, text, deduped, all_segments, attempt,
      req, disk, speaker_wav>>

Paths == 1 .. NumRequests
NoPath == 0
NoBody == -1
\* An object of the store is its size and the request that created it (a name
\* may be used again once its object is removed; the object is not the name).
NoFile == [size |-> -1, owner |-> 0]
File(size, r) == [size |-> size, owner |-> r]

NoResult == [text |-> << >>, avg_logprob |-> 0]
NoResponse == [status |-> 0, error |-> "", result |-> NoResult]
NoQuery == [language |-> None, prompt |-> None]

JSONResponse(result) == [status |-> 200, error |-> "", result |-> result]

\* (mutant) the status_code argument left out: the default, 200
ErrorResponseDefaultStatus(msg, code) ==
    [status |-> 200, error |-> msg, result |-> NoResult]

ErrorResponse(msg, code) == [status |-> code, error |-> msg, result |-> NoResult]

RequestsInit ==
    /\ pc = [r \in Requests |-> "new"]
    /\ endpoint = [r \in Requests |-> "none"]
    /\ body = [r \in Requests |-> NoBody]
    /\ tmp_path = [r \in Requests |-> NoPath]
    /\ query = [r \in Requests |-> NoQuery]
    /\ calls = [r \in Requests |-> << >>]
    /\ response = [r \in Requests |-> NoResponse]
    /\ removes = [r \in Requests |-> << >>]
    /\ disconnected = [r \in Requests |-> FALSE]
    /\ transcribe_semaphore = [value |-> MAX_CONCURRENT, waiters |-> << >>]
    /\ store = [p \in Paths |-> NoFile]

\* The configuration read at import, with the default retry beam.
ServerInit ==
    /\ RequestsInit
    /\ WHISPER_RETRY_BEAM_SIZE = WHISPER_RETRY_BEAM_SIZE_DEFAULT

\* resolve_speaker_wav is not looked at.
SpeakerIdle ==
    /\ req = None
    /\ disk = None
    /\ speaker_wav = << >>

\* No helper is looked at alone.
FunctionsIdle ==
    /\ SpeakerIdle
    /\ content_type = None
    /\ filename = None
    /\ suffix = None
    /\ text = None
    /\ deduped = << >>
    /\ all_segments = None
    /\ attempt = << >>

Init == ServerInit /\ FunctionsIdle

(***************************************************************************)
(* asyncio.Semaphore: a counter and the queue of the futures of the        *)
(* coroutines waiting in acquire().  release() hands the slot to the first *)
(* future that is not yet done; the future stays queued until its          *)
(* coroutine runs again, and while any future is queued a new acquire()    *)
(* queues behind it.                                                       *)
(***************************************************************************)
\* (mutant) a gate that never makes a request wait
LockedNever(sem) == FALSE

Locked(sem) == sem.value = 0 \/ sem.waiters # << >>

WakeUpNext(sem) ==
    LET pending == {i \in 1 .. Len(sem.waiters) : ~sem.waiters[i].done}
    IN  IF pending = {} THEN sem
        ELSE [value |-> sem.value - 1,
              waiters |-> [sem.waiters EXCEPT ![SetMin(pending)].done = TRUE]]

\* acquire() when the semaphore is not locked.
SemTake(sem) == [sem EXCEPT !.value = @ - 1]

\* acquire() when it is locked: queue a future and wait for it.
SemWait(sem, r) ==
    [sem EXCEPT !.waiters = Append(@, [req |-> r, done |-> FALSE])]

\* acquire() going on once its future is done.
SemWoken(sem, r) ==
    LET left == [sem EXCEPT !.waiters = SelectSeq(@, LAMBDA w : w.req # r)]
    IN  IF left.value > 0 THEN WakeUpNext(left) ELSE left

\* (mutant) a release that wakes nobody
SemReleaseNoWake(sem) == [sem EXCEPT !.value = @ + 1]

SemRelease(sem) == WakeUpNext([sem EXCEPT !.value = @ + 1])

IsWoken(sem, r) ==
    \E i \in 1 .. Len(sem.waiters) : sem.waiters[i].req = r /\ sem.waiters[i].done

(***************************************************************************)
(* The decisions of the handlers.                                          *)
(***************************************************************************)
\* transcribe, the Content-Length check.
HeaderVerdict(content_length) ==
    IF content_length = None \/ content_length = << >> THEN "ok"
    ELSE IF ~IsIntLiteral(content_length) THEN "invalid"
    ELSE IF IntValue(content_length) > MAX_BODY_BYTES THEN "too_large"
    ELSE "ok"

\* (mutant) the empty-payload check left out
BodyVerdictNoEmptyCheck(size) ==
    IF size > MAX_BODY_BYTES THEN "too_large" ELSE "ok"

\* transcribe and transcribe_file, the checks of the payload read.
BodyVerdict(size) ==
    IF size = 0 THEN "empty"
    ELSE IF size > MAX_BODY_BYTES THEN "too_large"
    ELSE "ok"

EmptyError(e) == IF e = "transcribe" THEN "Empty request body" ELSE "Empty file"

\* (mutant) a retry whatever the retry beam is
ShouldRetryWhateverBeam(result, retry_beam) ==
    /\ result.avg_logprob < WHISPER_RETRY_LOGPROB_THRESHOLD
    /\ Strip(result.text) # << >>

\* (mutant) a retry also at the threshold itself
ShouldRetryAtThreshold(result, retry_beam) ==
    /\ result.avg_logprob <= WHISPER_RETRY_LOGPROB_THRESHOLD
    /\ Strip(result.text) # << >>
    /\ retry_beam > WHISPER_BEAM_SIZE

\* (mutant) every attempt with a text retried, whatever its confidence
ShouldRetryWhateverConfidence(result, retry_beam) ==
    /\ Strip(result.text) # << >>
    /\ retry_beam > WHISPER_BEAM_SIZE

\* The confidence-based retry condition of transcribe.
ShouldRetry(result, retry_beam) ==
    /\ result.avg_logprob < WHISPER_RETRY_LOGPROB_THRESHOLD
    /\ Strip(result.text) # << >>
    /\ retry_beam > WHISPER_BEAM_SIZE

\* (mutant) the retry preferred on a tie
SelectResultRetryOnTie(result, retry_result) ==
    IF retry_result.avg_logprob >= result.avg_logprob
    THEN retry_result
    ELSE result

\* (mutant) the retry run and its result never used
SelectResultKeepFirst(result, retry_result) == result

\* (mutant) the better confidence reported with the text of the retry
SelectResultMixed(result, retry_result) ==
    [text |-> retry_result.text,
     avg_logprob |-> IF retry_result.avg_logprob > result.avg_logprob
                     THEN retry_result.avg_logprob ELSE result.avg_logprob]

\* "Use retry if it has better confidence".
SelectResult(result, retry_result) ==
    IF retry_result.avg_logprob > result.avg_logprob
    THEN retry_result
    ELSE result

\* An engine call as it is submitted to the thread pool.
PendingCall(args) == [args |-> args, outcome |-> "pending", result |-> NoResult]

\* (mutant) the handler goes on with a result while the call still runs
CompletedCallNotAwaited(call, got) == [call EXCEPT !.result = got]

\* result = await run_in_threadpool(...): the call has run to its end.
CompletedCall(call, got) == [call EXCEPT !.outcome = "returned", !.result = got]

\* (mutant) the overrides kept in a variable of the module, which every
\* request that has some sets and every request reads
FirstCallSharedOverrides(path, size, q) ==
    LET set == {x \in Requests : query[x] # NoQuery}
        last == IF set = {} THEN q ELSE query[SetMax(set)]
    IN  PendingCall(EngineArgs(path, size, last.language, last.prompt, 0))

\* What a handler keeps of the query parameters of its request: transcribe
\* reads language and prompt, transcribe_file reads neither.
ReqOverrides(e, q) == IF e = "transcribe" THEN q ELSE NoQuery

\* The first call of either handler, q being the overrides it kept.
FirstCall(path, size, q) ==
    PendingCall(EngineArgs(path, size, q.language, q.prompt, 0))

\* (mutant) the retry made without the request's overrides
RetryCallWithDefaults(path, size, q, retry_beam) ==
    PendingCall(EngineArgs(path, size, None, None, retry_beam))

\* The retry call of transcribe.
RetryCall(path, size, q, retry_beam) ==
    PendingCall(EngineArgs(path, size, q.language, q.prompt, retry_beam))

\* (mutant) one fixed name for every temporary object
FreshPathFixed(files) == 1

\* tempfile.NamedTemporaryFile: a name no object of the directory has (the
\* names are interchangeable; the least free one is taken).
FreshPath(files) == SetMin({p \in Paths : files[p] = NoFile})

(***************************************************************************)
(* Steps of a handler.  A step is the code between two awaits, which the   *)
(* event loop runs without interleaving.                                   *)
(***************************************************************************)
\* (mutant) the removal done on the way of a successful response only
FinallyOnSuccessOnly(r) ==
    LET p == tmp_path[r]
    IN  IF response'[r].status = 200 /\ p # NoPath /\ store[p] # NoFile
        THEN /\ removes' = [removes EXCEPT ![r] = Append(@, "removed")]
             /\ store' = [store EXCEPT ![p] = NoFile]
        ELSE UNCHANGED <<removes, store>>

\* The finally clause: remove tmp_path if it is set and exists.
Finally(r) ==
    \E fault \in RemoveFaults(r) :
        LET p == tmp_path[r]
        IN  IF p # NoPath /\ store[p] # NoFile
            THEN /\ removes' = [removes EXCEPT ![r] =
                        Append(@, IF fault = "none" THEN "removed" ELSE "OSError")]
                 /\ store' = IF fault = "none"
                             THEN [store EXCEPT ![p] = NoFile]
                             ELSE store
            ELSE UNCHANGED <<removes, store>>

\* A return (or an exception caught) outside the gate.
ReturnEarly(r, resp) ==
    /\ response' = [response EXCEPT ![r] = resp]
    /\ pc' = [pc EXCEPT ![r] = "done"]
    /\ Finally(r)
    /\ UNCHANGED <<tmp_path, query, calls, transcribe_semaphore>>

\* (mutant) no except clause around os.remove: its OSError leaves the handler
\* and the server answers 500 in place of the response
LeaveGateRemoveRaises(r, resp) ==
    /\ transcribe_semaphore' = SemRelease(transcribe_semaphore)
    /\ pc' = [pc EXCEPT ![r] = "done"]
    /\ \E fault \in RemoveFaults(r) :
        /\ removes' = [removes EXCEPT ![r] =
               Append(@, IF fault = "none" THEN "removed" ELSE "OSError")]
        /\ store' = IF fault = "none"
                    THEN [store EXCEPT ![tmp_path[r]] = NoFile]
                    ELSE store
        /\ response' = [response EXCEPT ![r] =
               IF fault = "none" THEN resp
               ELSE ErrorResponse("Internal Server Error", 500)]
    /\ UNCHANGED <<tmp_path, query>>

\* (mutant) the slot given back on a return only, not on an exception
LeaveGateSlotLostOnError(r, resp) ==
    /\ transcribe_semaphore' = IF resp.status = 200
                               THEN SemRelease(transcribe_semaphore)
                               ELSE transcribe_semaphore
    /\ response' = [response EXCEPT ![r] = resp]
    /\ pc' = [pc EXCEPT ![r] = "done"]
    /\ Finally(r)
    /\ UNCHANGED <<tmp_path, query>>

\* Leaving the async with block, by return or by exception, then the response
\* and the finally clause.
LeaveGate(r, resp) ==
    /\ transcribe_semaphore' = SemRelease(transcribe_semaphore)
    /\ response' = [response EXCEPT ![r] = resp]
    /\ pc' = [pc EXCEPT ![r] = "done"]
    /\ Finally(r)
    /\ UNCHANGED <<tmp_path, query>>

\* The request arrives; transcribe checks Content-Length, then both handlers
\* await the payload.
Start(r) ==
    /\ pc[r] = "new"
    /\ \E e \in Endpoints :
        /\ endpoint' = [endpoint EXCEPT ![r] = e]
        /\ \E content_length \in ContentLengths(r) :
            LET verdict == IF e = "transcribe"
                           THEN HeaderVerdict(content_length)
                           ELSE "ok"
            IN  CASE verdict = "too_large" ->
                        ReturnEarly(r, ErrorResponse("Audio payload too large", 413))
                  [] verdict = "invalid" ->
                        ReturnEarly(r, ErrorResponse("Invalid Content-Length header", 400))
                  [] OTHER ->
                        /\ pc' = [pc EXCEPT ![r] = "body"]
                        /\ UNCHANGED <<tmp_path, query, calls, response, removes,
                                       transcribe_semaphore, store>>
    /\ UNCHANGED <<body, disconnected, WHISPER_RETRY_BEAM_SIZE,
                   functions>>

\* (mutant) the engine called without `async with transcribe_semaphore`
EnterGateUngated(r, path, size, q) ==
    /\ pc' = [pc EXCEPT ![r] = "engine1"]
    /\ calls' = [calls EXCEPT ![r] = <<FirstCall(path, size, q)>>]
    /\ UNCHANGED transcribe_semaphore

\* The payload has been read: the size checks, the temporary object, the
\* query parameters, and the entry of the gate up to the first await in it.
EnterGate(r, path, size, q) ==
    IF Locked(transcribe_semaphore)
    THEN /\ transcribe_semaphore' = SemWait(transcribe_semaphore, r)
         /\ pc' = [pc EXCEPT ![r] = "acquire"]
         /\ UNCHANGED calls
    ELSE /\ transcribe_semaphore' = SemTake(transcribe_semaphore)
         /\ pc' = [pc EXCEPT ![r] = "engine1"]
         /\ calls' = [calls EXCEPT ![r] = <<FirstCall(path, size, q)>>]

BodyRead(r) ==
    /\ pc[r] = "body"
    /\ \E size \in BodySizes(r) :
        /\ body' = [body EXCEPT ![r] = size]
        /\ CASE BodyVerdict(size) = "empty" ->
                ReturnEarly(r, ErrorResponse(EmptyError(endpoint[r]), 400))
          [] BodyVerdict(size) = "too_large" ->
                ReturnEarly(r, ErrorResponse("Audio payload too large", 413))
          [] OTHER ->
                \E fault \in CreateFaults(r) :
                    LET path == FreshPath(store)
                    IN  CASE fault = "create" ->
                                ReturnEarly(r, ErrorResponse("Transcription failed", 500))
                          [] fault = "write" ->
                                \* the object exists, tmp_path is still None
                                /\ store' = [store EXCEPT ![path] = File(0, r)]
                                /\ response' = [response EXCEPT ![r] =
                                       ErrorResponse("Transcription failed", 500)]
                                /\ pc' = [pc EXCEPT ![r] = "done"]
                                /\ UNCHANGED <<tmp_path, query, calls, removes,
                                               transcribe_semaphore>>
                          [] OTHER ->
                                \E q \in QueryParams(r) :
                                    /\ store' = [store EXCEPT ![path] = File(size, r)]
                                    /\ tmp_path' = [tmp_path EXCEPT ![r] = path]
                                    /\ query' = [query EXCEPT ![r] = q]
                                    /\ EnterGate(r, path, size,
                                                 ReqOverrides(endpoint[r], q))
                                    /\ UNCHANGED <<response, removes>>
    /\ UNCHANGED <<endpoint, disconnected, WHISPER_RETRY_BEAM_SIZE,
                   functions>>

\* A queued request whose future is done goes on into the gate.
Admitted(r) ==
    /\ pc[r] = "acquire"
    /\ IsWoken(transcribe_semaphore, r)
    /\ transcribe_semaphore' = SemWoken(transcribe_semaphore, r)
    /\ pc' = [pc EXCEPT ![r] = "engine1"]
    /\ calls' = [calls EXCEPT ![r] =
           <<FirstCall(tmp_path[r], store[tmp_path[r]].size,
                       ReqOverrides(endpoint[r], query[r]))>>]
    /\ UNCHANGED <<endpoint, body, tmp_path, query, response, removes,
                   disconnected, store, WHISPER_RETRY_BEAM_SIZE,
                   functions>>

\* (mutant) a first call that raised is followed by the retry
EngineRaisesThenRetries(r) ==
    /\ pc[r] \in {"engine1", "engine2"}
    /\ IF pc[r] = "engine1"
       THEN /\ calls' = [calls EXCEPT ![r] =
                   Append([@ EXCEPT ![1].outcome = "raised"],
                          RetryCall(tmp_path[r], store[tmp_path[r]].size,
                                    query[r], WHISPER_RETRY_BEAM_SIZE))]
            /\ pc' = [pc EXCEPT ![r] = "engine2"]
            /\ UNCHANGED <<tmp_path, query, response, removes,
                           transcribe_semaphore, store>>
       ELSE /\ calls' = [calls EXCEPT ![r][Len(calls[r])].outcome = "raised"]
            /\ LeaveGate(r, ErrorResponse("Transcription failed", 500))
    /\ UNCHANGED <<endpoint, body, disconnected, WHISPER_RETRY_BEAM_SIZE,
                   functions>>

\* The engine call in flight raises: the handler leaves the gate through
\* except Exception.
EngineRaises(r) ==
    /\ pc[r] \in {"engine1", "engine2"}
    /\ calls' = [calls EXCEPT ![r][Len(calls[r])].outcome = "raised"]
    /\ LeaveGate(r, ErrorResponse("Transcription failed", 500))
    /\ UNCHANGED <<endpoint, body, disconnected, WHISPER_RETRY_BEAM_SIZE,
                   functions>>

\* (mutant) the slot given back between the first attempt and the retry
EngineReturnsFromSlotReleased(r, outputs) ==
    /\ pc[r] \in {"engine1", "engine2"}
    /\ calls[r][Len(calls[r])].args.size # NoFile.size
    /\ \E segs \in outputs :
        LET got == TranscribeResult(segs)
            done == [calls[r] EXCEPT ![Len(calls[r])] = CompletedCall(@, got)]
        IN  IF pc[r] = "engine2"
            THEN /\ calls' = [calls EXCEPT ![r] = done]
                 /\ LeaveGate(r, JSONResponse(SelectResult(calls[r][1].result, got)))
            ELSE IF /\ endpoint[r] = "transcribe"
                    /\ ShouldRetry(got, WHISPER_RETRY_BEAM_SIZE)
            THEN /\ calls' = [calls EXCEPT ![r] =
                        Append(done, RetryCall(tmp_path[r], store[tmp_path[r]].size,
                                               query[r], WHISPER_RETRY_BEAM_SIZE))]
                 /\ pc' = [pc EXCEPT ![r] = "engine2"]
                 /\ transcribe_semaphore' = SemRelease(transcribe_semaphore)
                 /\ UNCHANGED <<tmp_path, query, response, removes, store>>
            ELSE /\ calls' = [calls EXCEPT ![r] = done]
                 /\ LeaveGate(r, JSONResponse(got))
    /\ UNCHANGED <<endpoint, body, disconnected, WHISPER_RETRY_BEAM_SIZE,
                   functions>>

\* The engine call in flight returns its segments and the handler goes on.
EngineReturnsFrom(r, outputs) ==
    /\ pc[r] \in {"engine1", "engine2"}
    /\ calls[r][Len(calls[r])].args.size # NoFile.size
    /\ \E segs \in outputs :
        LET got == TranscribeResult(segs)
            done == [calls[r] EXCEPT ![Len(calls[r])] = CompletedCall(@, got)]
        IN  IF pc[r] = "engine2"
            THEN /\ calls' = [calls EXCEPT ![r] = done]
                 /\ LeaveGate(r, JSONResponse(SelectResult(calls[r][1].result, got)))
            ELSE IF /\ endpoint[r] = "transcribe"
                    /\ ShouldRetry(got, WHISPER_RETRY_BEAM_SIZE)
            THEN /\ calls' = [calls EXCEPT ![r] =
                        Append(done, RetryCall(tmp_path[r], store[tmp_path[r]].size,
                                               query[r], WHISPER_RETRY_BEAM_SIZE))]
                 /\ pc' = [pc EXCEPT ![r] = "engine2"]
                 /\ UNCHANGED <<tmp_path, query, response, removes,
                                transcribe_semaphore, store>>
            ELSE /\ calls' = [calls EXCEPT ![r] = done]
                 /\ LeaveGate(r, JSONResponse(got))
    /\ UNCHANGED <<endpoint, body, disconnected, WHISPER_RETRY_BEAM_SIZE,
                   functions>>

EngineReturns(r) == EngineReturnsFrom(r, EngineOutputs(r))

\* (mutant) the handler cancelled when its client goes away during an engine
\* call: it leaves the gate and cleans up while the call still runs
DisconnectCancelsHandler(r) ==
    /\ MayDisconnect(r)
    /\ pc[r] \in {"acquire", "engine1", "engine2"}
    /\ ~disconnected[r]
    /\ disconnected' = [disconnected EXCEPT ![r] = TRUE]
    /\ IF pc[r] = "acquire"
       THEN UNCHANGED <<pc, tmp_path, query, response, removes,
                        transcribe_semaphore, store>>
       ELSE LeaveGate(r, response[r])
    /\ UNCHANGED <<endpoint, body, calls, WHISPER_RETRY_BEAM_SIZE, functions>>

\* The client goes away after its payload was received.  Neither handler
\* reads the state of the connection.
Disconnect(r) ==
    /\ MayDisconnect(r)
    /\ pc[r] \in {"acquire", "engine1", "engine2"}
    /\ ~disconnected[r]
    /\ disconnected' = [disconnected EXCEPT ![r] = TRUE]
    /\ UNCHANGED <<pc, endpoint, body, tmp_path, query, calls, response,
                   removes, transcribe_semaphore, store, WHISPER_RETRY_BEAM_SIZE,
                   functions>>

Next ==
    \E r \in Requests :
        \/ Start(r)
        \/ BodyRead(r)
        \/ Admitted(r)
        \/ EngineRaises(r)
        \/ EngineReturns(r)
        \/ Disconnect(r)

Spec == Init /\ [][Next]_vars

\* The server does not stop while a step can be taken: the event loop runs a
\* coroutine that can run, and an engine call in flight ends (it returns or
\* it raises).
LiveSpec == Spec /\ WF_vars(Next)

\* _choose_suffix alone, on every pair of a content type and a file name.
FormatInit ==
    /\ ServerInit
    /\ SpeakerIdle
    /\ content_type \in ContentTypes
    /\ filename \in Filenames
    /\ suffix = None
    /\ text = None
    /\ deduped = << >>
    /\ all_segments = None
    /\ attempt = << >>

ChooseSuffix ==
    /\ suffix = None
    /\ suffix' = _choose_suffix(content_type, filename)
    /\ UNCHANGED <<server, content_type, filename, text, deduped,
                   all_segments, attempt, req, disk, speaker_wav>>

FormatSpec == FormatInit /\ [][ChooseSuffix]_vars

\* _deduplicate_text alone: applied to a text, then to its own result.
DedupInit ==
    /\ ServerInit
    /\ SpeakerIdle
    /\ text \in DedupTexts
    /\ deduped = << >>
    /\ content_type = None
    /\ filename = None
    /\ suffix = None
    /\ all_segments = None
    /\ attempt = << >>

Deduplicate ==
    /\ Len(deduped) < 2
    /\ deduped' = Append(deduped,
           _deduplicate_text(IF deduped = << >> THEN text
                             ELSE deduped[Len(deduped)]))
    /\ UNCHANGED <<server, content_type, filename, suffix, text,
                   all_segments, attempt, req, disk, speaker_wav>>

DedupSpec == DedupInit /\ [][Deduplicate]_vars

\* What _transcribe_file makes of the segments of one engine call.
AttemptInit ==
    /\ ServerInit
    /\ SpeakerIdle
    /\ all_segments \in SegmentLists
    /\ attempt = << >>
    /\ content_type = None
    /\ filename = None
    /\ suffix = None
    /\ text = None
    /\ deduped = << >>

Aggregate ==
    /\ attempt = << >>
    /\ attempt' = <<TranscribeResult(all_segments)>>
    /\ UNCHANGED <<server, content_type, filename, suffix, text, deduped,
                   all_segments, req, disk, speaker_wav>>

AttemptSpec == AttemptInit /\ [][Aggregate]_vars

\* The observed request served alone, on a recording of ScenarioOutputs.
ScenarioNext ==
    \E r \in {q \in Requests : Observed(q)} :
        \/ Start(r)
        \/ BodyRead(r)
        \/ EngineRaises(r)
        \/ EngineReturnsFrom(r, ScenarioOutputs)
        \/ Disconnect(r)

ScenarioSpec == Init /\ [][ScenarioNext]_vars

\* The server started with WHISPER_RETRY_BEAM_SIZE set to a beam that is not
\* wider than the first one: equal to it, or narrower.
NarrowRetryBeams == {WHISPER_BEAM_SIZE, 1}

NarrowRetryInit ==
    /\ RequestsInit
    /\ WHISPER_RETRY_BEAM_SIZE \in NarrowRetryBeams
    /\ FunctionsIdle

NarrowRetrySpec == NarrowRetryInit /\ [][Next]_vars

\* The event loop runs a coroutine that can run; an engine call may hang.
HungEngineSpec ==
    /\ Spec
    /\ \A r \in Requests :
        /\ WF_vars(Start(r))
        /\ WF_vars(BodyRead(r))
        /\ WF_vars(Admitted(r))

(***************************************************************************)
(* Properties.                                                             *)
(***************************************************************************)
\* The engine calls in flight: (request, index of the call).
EngineInFlight ==
    {c \in Requests \X {1, 2} :
        /\ c[2] <= Len(calls[c[1]])
        /\ calls[c[1]][c[2]].outcome = "pending"}

InFlightOf(r) == {c \in EngineInFlight : c[1] = r}

HasLease(r) == tmp_path[r] # NoPath

ObjectsOf(r) == {p \in Paths : store[p].owner = r}

FirstReturned(r) == calls[r] # << >> /\ calls[r][1].outcome = "returned"

\* C1: at every instant the number of engine invocations in flight, of all
\* requests of both endpoints together, is at most MAX_CONCURRENT.
C1_AdmissionBound == Cardinality(EngineInFlight) <= MAX_CONCURRENT

\* The gate is full with a request of one endpoint while a request of the
\* other endpoint is queued behind it.
C1_Witness ==
    /\ Cardinality(EngineInFlight) = MAX_CONCURRENT
    /\ \E r, q \in Requests :
        /\ pc[r] = "acquire"
        /\ InFlightOf(q) # {}
        /\ endpoint[r] # endpoint[q]

\* C2 (as stated): a request that took a lease has, once it has ended, had
\* its temporary object removed exactly once, and no object of it remains.
C2_ReleasedAndGone ==
    \A r \in Requests :
        (HasLease(r) /\ pc[r] = "done") =>
            (Len(removes[r]) = 1 /\ ObjectsOf(r) = {})

\* C2 (amended): a request that took a lease holds its object, unremoved,
\* until it ends; when it has ended, on whatever path, the removal has been
\* run exactly once, and no object of the request remains unless that one
\* removal failed.  A request without a lease never runs a removal.
C2_ReleasedOnce ==
    \A r \in Requests :
        IF ~HasLease(r) THEN removes[r] = << >>
        ELSE IF pc[r] # "done"
        THEN removes[r] = << >> /\ ObjectsOf(r) = {tmp_path[r]}
        ELSE /\ Len(removes[r]) = 1
             /\ (removes[r][1] = "removed" => ObjectsOf(r) = {})

\* A request whose client went away and whose retry failed has ended with
\* its object removed.
C2_Witness ==
    \E r \in Requests :
        /\ pc[r] = "done"
        /\ disconnected[r]
        /\ Len(calls[r]) = 2
        /\ calls[r][2].outcome = "raised"
        /\ removes[r] = <<"removed">>
        /\ ObjectsOf(r) = {}

\* C3 (as stated): with the retry beam wider than the initial one, a request
\* whose first attempt returned runs a second attempt exactly when the first
\* attempt's confidence is below the threshold and its text is not empty.
C3_RetryIff ==
    \A r \in Requests :
        (FirstReturned(r) /\ WHISPER_RETRY_BEAM_SIZE > WHISPER_BEAM_SIZE) =>
            (Len(calls[r]) = 2 <=>
                /\ calls[r][1].result.avg_logprob < WHISPER_RETRY_LOGPROB_THRESHOLD
                /\ calls[r][1].result.text # << >>)

\* C4 (as stated): a request whose retry raised after its first attempt
\* returned answers with the first attempt's result.
C4_RetryFailureFallsBack ==
    \A r \in Requests :
        (/\ pc[r] = "done"
         /\ Len(calls[r]) = 2
         /\ calls[r][1].outcome = "returned"
         /\ calls[r][2].outcome = "raised") =>
            response[r] = JSONResponse(calls[r][1].result)

\* C5: a request whose first attempt raised has made no other engine call,
\* has ended with a 5xx error and no transcript, and has run the removal of
\* its temporary object.
C5_FirstFailureIsFatal ==
    \A r \in Requests :
        (calls[r] # << >> /\ calls[r][1].outcome = "raised") =>
            /\ Len(calls[r]) = 1
            /\ pc[r] = "done"
            /\ response[r].status \in 500 .. 599
            /\ response[r].result = NoResult
            /\ Len(removes[r]) = 1

C5_Witness ==
    \E r \in Requests :
        /\ calls[r] # << >>
        /\ calls[r][1].outcome = "raised"
        /\ response[r].status = 500
        /\ removes[r] = <<"removed">>
        /\ ObjectsOf(r) = {}

\* C6: a request whose payload is empty or larger than MAX_BODY_BYTES (as
\* read, or as its Content-Length declares) has ended with a 4xx error
\* without a temporary object, without a place in or behind the gate and
\* without an engine call; every engine call reads a payload of a size in
\* 1 .. MAX_BODY_BYTES.
C6_BadPayloadRejected ==
    /\ \A r \in Requests :
        (body[r] = 0 \/ body[r] > MAX_BODY_BYTES \/ response[r].status = 413) =>
            /\ pc[r] = "done"
            /\ response[r].status \in 400 .. 499
            /\ ~HasLease(r)
            /\ ObjectsOf(r) = {}
            /\ calls[r] = << >>
            /\ \A i \in 1 .. Len(transcribe_semaphore.waiters) :
                   transcribe_semaphore.waiters[i].req # r
    /\ \A c \in EngineInFlight :
        calls[c[1]][c[2]].args.size \in 1 .. MAX_BODY_BYTES
    /\ \A r \in Requests : \A i \in 1 .. Len(calls[r]) :
        calls[r][i].args.size \in 1 .. MAX_BODY_BYTES

\* A payload one byte over the maximum was rejected with 413 while the
\* engine was given a payload of the maximum size or less.
C6_Witness ==
    \E r, q \in Requests :
        /\ body[r] = MAX_BODY_BYTES + 1
        /\ response[r].status = 413
        /\ calls[q] # << >>

\* C7: a request whose retry returned answers with the retry's result when
\* the retry's confidence is strictly higher, and with the first attempt's
\* result otherwise (so on a tie).
C7_HigherConfidenceWins ==
    \A r \in Requests :
        (/\ pc[r] = "done"
         /\ Len(calls[r]) = 2
         /\ calls[r][2].outcome = "returned") =>
            /\ response[r].status = 200
            /\ (calls[r][2].result.avg_logprob > calls[r][1].result.avg_logprob
                    => response[r].result = calls[r][2].result)
            /\ (calls[r][2].result.avg_logprob <= calls[r][1].result.avg_logprob
                    => response[r].result = calls[r][1].result)

\* A tie between two attempts with different texts, answered with the first.
C7_Witness ==
    \E r \in Requests :
        /\ pc[r] = "done"
        /\ Len(calls[r]) = 2
        /\ calls[r][2].outcome = "returned"
        /\ calls[r][2].result.avg_logprob = calls[r][1].result.avg_logprob
        /\ calls[r][2].result.text # calls[r][1].result.text
        /\ response[r].result = calls[r][1].result

\* C8: a request makes at most two engine calls, and exactly one when its
\* first attempt returned with a confidence at or above the threshold.
C8_EngineCallCount ==
    \A r \in Requests :
        /\ Len(calls[r]) <= 2
        /\ (/\ FirstReturned(r)
            /\ calls[r][1].result.avg_logprob >= WHISPER_RETRY_LOGPROB_THRESHOLD)
                => Len(calls[r]) = 1

\* A first attempt exactly at the threshold, not retried.
C8_Witness ==
    \E r \in Requests :
        /\ pc[r] = "done"
        /\ FirstReturned(r)
        /\ calls[r][1].result.avg_logprob = WHISPER_RETRY_LOGPROB_THRESHOLD
        /\ calls[r][1].result.text # << >>
        /\ Len(calls[r]) = 1
        /\ response[r].status = 200

\* C9: a request never has two engine calls in flight, and its retry exists
\* only once its first call has returned.
C9_AttemptsSequential ==
    \A r \in Requests :
        /\ Cardinality(InFlightOf(r)) <= 1
        /\ Len(calls[r]) = 2 => calls[r][1].outcome = "returned"

\* A retry in flight.
C9_Witness ==
    \E r \in Requests :
        /\ pc[r] = "engine2"
        /\ InFlightOf(r) = {<<r, 2>>}

\* C10: the retry call is made with WHISPER_RETRY_BEAM_SIZE, which is wider
\* than the beam of the first call, and with every other argument (path and
\* size of the stored payload, language, prompt, fixed thresholds) equal to
\* that of the first call.
C10_RetryArgs ==
    \A r \in Requests :
        Len(calls[r]) = 2 =>
            /\ calls[r][2].args.beam_size = WHISPER_RETRY_BEAM_SIZE
            /\ calls[r][2].args.beam_size > calls[r][1].args.beam_size
            /\ [calls[r][2].args EXCEPT !.beam_size = calls[r][1].args.beam_size]
                   = calls[r][1].args

\* A retry of a request that overrides the language and the prompt.
C10_Witness ==
    \E r \in Requests :
        /\ Len(calls[r]) = 2
        /\ calls[r][2].args.language = <<"e", "s">>
        /\ calls[r][2].args.initial_prompt # WHISPER_INITIAL_PROMPT
        /\ calls[r][2].args.path = tmp_path[r]

\* C11 (as stated): a request whose client went away while it waits for a
\* slot is abandoned: it never makes an engine call, it leaves the queue only
\* by ending.
C11_QueuedDisconnectAbandons ==
    [][\A r \in Requests :
        (disconnected[r] /\ pc[r] = "acquire") =>
            (calls'[r] = << >> /\ pc'[r] \in {"acquire", "done"})]_vars

\* C12 (as stated): once the client went away during an engine call, the call
\* ends but no retry is started and no result is put in a response.
C12_DisconnectedResultDiscarded ==
    [][\A r \in Requests :
        (disconnected[r] /\ pc[r] \in {"engine1", "engine2"}) =>
            (Len(calls'[r]) = Len(calls[r]) /\ response'[r].status # 200)]_vars

Queued(r) == pc[r] = "acquire"

\* C13: a request that finds the gate full waits in the queue (it is not
\* answered for lack of a slot), and when every engine call ends, every
\* queued request is in the end admitted (it makes its engine call) and ends.
C13_QueuedEventuallyDone ==
    \A r \in Requests :
        Queued(r) ~> (pc[r] = "done" /\ calls[r] # << >>)

\* A validated request waits behind a full gate.
C13_Witness ==
    \E r \in Requests :
        /\ Queued(r)
        /\ ~IsWoken(transcribe_semaphore, r)
        /\ transcribe_semaphore.value = 0
        /\ response[r] = NoResponse

\* C14 (as stated): the wait for a slot is bounded, so a queued request leaves
\* the queue even when the engine calls ahead of it never end.
C14_WaitIsBounded ==
    \A r \in Requests : Queued(r) ~> ~Queued(r)

\* What the handler answers, given the engine calls it made.
ResponseOf(cs) ==
    IF cs[Len(cs)].outcome = "raised"
    THEN ErrorResponse("Transcription failed", 500)
    ELSE IF Len(cs) = 2
    THEN JSONResponse(SelectResult(cs[1].result, cs[2].result))
    ELSE JSONResponse(cs[1].result)

\* C15: the response of a request that ran the removal of its temporary
\* object is what its engine calls make it, the same whether the removal
\* succeeded or failed.
C15_RemoveFailureNotPropagated ==
    \A r \in Requests :
        (pc[r] = "done" /\ removes[r] # << >>) =>
            /\ calls[r] # << >>
            /\ response[r] = ResponseOf(calls[r])

\* A transcript answered although the removal failed.
C15_Witness ==
    \E r \in Requests :
        /\ pc[r] = "done"
        /\ removes[r] = <<"OSError">>
        /\ response[r].status = 200
        /\ response[r].result.text # << >>

\* C16 (as stated): a request with a valid payload that ended without a
\* tmp_path (the storage backend failed to create or to write the object)
\* has an error response, no engine call, and no object in the store.
C16_StorageFailureLeavesNothing ==
    \A r \in Requests :
        (/\ pc[r] = "done"
         /\ body[r] \in 1 .. MAX_BODY_BYTES
         /\ ~HasLease(r)) =>
            /\ response[r].status = 500
            /\ calls[r] = << >>
            /\ ObjectsOf(r) = {}

\* The six supported tags: a suffix without its dot.
Tags == {Tail(x) : x \in Suffixes}

\* The file name has an extension and it is, in lower case, a supported one.
HasSupportedExtension(f) == Truthy(f) /\ Lower(PathSuffix(f)) \in Suffixes

\* The supported tags the content type contains.
TagsIn(ct) == {t \in Tags : Contains(Lower(OrElse(ct, << >>)), t)}

\* C17: when the file name has a supported extension, in whatever case, the
\* format chosen is that extension, in lower case, whatever the content type.
C17_FilenameFirst ==
    (suffix # None /\ HasSupportedExtension(filename)) =>
        suffix = Lower(PathSuffix(filename))

\* "call.ogg" sent as application/octet-stream gives .ogg.
C17_Witness ==
    /\ filename = <<"c", "a", "l", "l", ".", "o", "g", "g">>
    /\ content_type =
        <<"a", "p", "p", "l", "i", "c", "a", "t", "i", "o", "n", "/", "o", "c", "t", "e", "t", "-", "s", "t", "r", "e", "a", "m">>
    /\ suffix = <<".", "o", "g", "g">>

\* C18 (as stated): without a file name of a supported extension, a content
\* type that contains one of the six tags (and no other of them) gives that
\* tag.
C18_ContentTypeTag ==
    (suffix # None /\ ~HasSupportedExtension(filename)) =>
        \A t \in Tags : TagsIn(content_type) = {t} => suffix = <<".">> \o t

\* The content type names a container _choose_suffix knows.
Recognizable(ct) ==
    TagsIn(ct) # {} \/ Contains(Lower(OrElse(ct, << >>)), <<"m", "p", "e", "g">>)

\* C19: whatever the content type and the file name, the format chosen is
\* one of the six supported ones; it is .wav when there is no file name and
\* the content type is missing, empty or names no known container.
C19_FormatTotal ==
    suffix # None =>
        /\ suffix \in Suffixes
        /\ (~Truthy(filename) /\ ~Recognizable(content_type))
                => suffix = <<".", "w", "a", "v">>

\* A file name of an unsupported extension and a content type that says
\* nothing: .wav.
C19_Witness ==
    /\ filename = <<"a", ".", "t", "x", "t">>
    /\ content_type = <<"t", "e", "x", "t", "/", "p", "l", "a", "i", "n">>
    /\ suffix = <<".", "w", "a", "v">>

\* C20 (as stated): _deduplicate_text applied to its own result changes
\* nothing.
C20_DedupIdempotent == Len(deduped) = 2 => deduped[2] = deduped[1]

(***************************************************************************)
(* Deduplication, pass by pass.                                            *)
(***************************************************************************)
\* What pass 1 is applied to, and what it makes of it.
Pass1Input(t) == Strip(t)
Pass1Output(t) == CollapseRepeats(Strip(t))

Punctuation == {",", ".", "!", "?", ";", ":", "-"}
IsSeparator(c) == IsSpace(c) \/ c \in Punctuation

\* s holds a substring of at least MinPhraseLen characters followed, after
\* nothing but whitespace and punctuation, by a copy of itself, letter case
\* aside.
HasSeparatedRepeat(s) ==
    \E i \in 1 .. Len(s), n \in MinPhraseLen .. Len(s), j \in 1 .. Len(s) :
        /\ i + n <= j
        /\ \A k \in (i + n) .. (j - 1) : IsSeparator(s[k])
        /\ BackrefAt(s, j, Slice(s, i, i + n - 1))

\* C21 (as stated): a text in which a substring of at least eight characters
\* occurs twice in a row, with only whitespace or punctuation in between and
\* letter case aside, does not leave pass 1 as it entered it: the repeat is
\* collapsed.
C21_RepeatsCollapsed ==
    (deduped # << >> /\ HasSeparatedRepeat(Pass1Input(text)))
        => Pass1Output(text) # Pass1Input(text)

\* What pass 2 is applied to: the result of pass 1, stripped again when
\* pass 1 changed the text.
Pass2Input(t) ==
    IF Pass1Output(t) # Pass1Input(t) THEN Strip(Pass1Output(t))
    ELSE Pass1Input(t)

\* The first sentence, lower-cased, starts with s stripped of trailing
\* dashes and spaces and lower-cased.
StartsFirst(first, s) ==
    StartsWith(Lower(first), Lower(RStripIn(s, {"-", " "})))

\* C22: the result is the first sentence of what pass 1 left, followed by
\* the later sentences the lower-cased first sentence does not start with
\* (trailing dashes and spaces and letter case aside), in their order, with
\* one space between any two.
C22_SentenceFilter ==
    deduped # << >> =>
        LET sentences == SplitSentences(Pass2Input(text))
            kept == SelectSeq(Tail(sentences),
                              LAMBDA s : ~StartsFirst(sentences[1], s))
        IN  deduped[1] = JoinWith(<<sentences[1]>> \o kept, <<" ">>)

\* Of three sentences the second, a beginning of the first, is dropped and
\* the third is kept.
C22_Witness ==
    /\ text = <<"a", ".", "b", "c", "d", "e", "f", "g", "h", ".", " ",
                "a", ".", " ", "o", "k">>
    /\ deduped # << >>
    /\ deduped[1] = <<"a", ".", "b", "c", "d", "e", "f", "g", "h", ".", " ",
                      "o", "k">>

(***************************************************************************)
(* The confidence of an attempt.                                           *)
(***************************************************************************)
SegmentLogprobs(segs) == {segs[i].avg_logprob : i \in 1 .. Len(segs)}

Abs(x) == IF x < 0 THEN -x ELSE x

\* C23 (as stated): the confidence reported for an attempt of one segment or
\* more lies between the least and the greatest log-probability of its
\* segments; an attempt without segments reports -1.0.
C23_WithinSegmentRange ==
    attempt # << >> =>
        IF all_segments = << >>
        THEN attempt[1].avg_logprob = NoSegmentsLogprob
        ELSE /\ SetMin(SegmentLogprobs(all_segments)) <= attempt[1].avg_logprob
             /\ attempt[1].avg_logprob <= SetMax(SegmentLogprobs(all_segments))

\* C23 (amended): the confidence reported for an attempt of one segment or
\* more is the duration-weighted mean of the segments' log-probabilities
\* rounded to four decimals: a multiple of 1/10000 at most half of 1/10000
\* away from the mean, hence from the range of the segments' values, and
\* inside that range when the segments' values have four decimals at most.
\* An attempt without segments reports -1.0.
C23_RoundedWeightedMean ==
    attempt # << >> =>
        IF all_segments = << >>
        THEN attempt[1].avg_logprob = NoSegmentsLogprob
        ELSE LET v  == attempt[1].avg_logprob
                 lo == SetMin(SegmentLogprobs(all_segments))
                 hi == SetMax(SegmentLogprobs(all_segments))
             IN  /\ v % 10 = 0
                 /\ 2 * Abs(v * TotalDuration(all_segments)
                                - WeightedLogprob(all_segments))
                        <= 10 * TotalDuration(all_segments)
                 /\ lo - 5 <= v /\ v <= hi + 5
                 /\ (\A x \in SegmentLogprobs(all_segments) : x % 10 = 0)
                        => (lo <= v /\ v <= hi)

\* One segment of log-probability -0.12347 is reported as -0.1235, below
\* the only value there is.
C23_Witness ==
    /\ all_segments = <<Segment(0, 100, <<"a">>, -12347)>>
    /\ attempt # << >>
    /\ attempt[1].avg_logprob = -12350

(***************************************************************************)
(* Two requests from end to end.                                           *)
(***************************************************************************)
PricingFor ==
    <<"Y", "e", "s", ",", " ", "I", "'", "m", " ", "p", "r", "i", "c", "i",
    "n", "g", " ", "f", "o", "r">>
PricingForTheService ==
    <<"Y", "e", "s", ",", " ", "I", "'", "m", " ", "p", "r", "i", "c", "i",
    "n", "g", " ", "f", "o", "r", " ", "t", "h", "e", " ", "s", "e", "r", "v",
    "i", "c", "e", ".">>
ThanksForCalling ==
    <<"H", "e", "l", "l", "o", ",", " ", "t", "h", "a", "n", "k", "s", " ",
    "f", "o", "r", " ", "c", "a", "l", "l", "i", "n", "g", ".">>

\* C24: the first attempt on SegsRepeated is the phrase once with confidence
\* -0.85, below the threshold; with a retry beam above the initial one the
\* raw-body handler then makes a second call; and a request whose first
\* attempt was that one and whose retry returned SegsService has made two
\* calls, has ended and answers "Yes, I'm pricing for the service." with
\* confidence -0.2.
C24_RetryScenario ==
    LET first == TranscribeResult(SegsRepeated)
        retry == TranscribeResult(SegsService)
    IN  /\ first = [text |-> PricingFor, avg_logprob |-> -85000]
        /\ first.avg_logprob < WHISPER_RETRY_LOGPROB_THRESHOLD
        /\ \A r \in Requests :
            /\ (/\ endpoint[r] = "transcribe"
                /\ FirstReturned(r)
                /\ calls[r][1].result = first
                /\ WHISPER_RETRY_BEAM_SIZE > WHISPER_BEAM_SIZE)
                    => Len(calls[r]) = 2
            /\ (/\ Len(calls[r]) = 2
                /\ calls[r][1].result = first
                /\ calls[r][2].outcome = "returned"
                /\ calls[r][2].result = retry)
                    => /\ pc[r] = "done"
                       /\ response[r] = JSONResponse(
                              [text |-> PricingForTheService,
                               avg_logprob |-> -20000])

\* The scenario has run to its end.
C24_Witness ==
    \E r \in Requests :
        /\ pc[r] = "done"
        /\ Len(calls[r]) = 2
        /\ calls[r][1].result = [text |-> PricingFor, avg_logprob |-> -85000]
        /\ calls[r][1].args.beam_size = WHISPER_BEAM_SIZE
        /\ calls[r][2].args.beam_size = WHISPER_RETRY_BEAM_SIZE
        /\ calls[r][2].outcome = "returned"
        /\ response[r].result.text = PricingForTheService
        /\ response[r].result.avg_logprob = -20000

\* C25: deduplication leaves "Hello, thanks for calling." as it is, and a
\* request whose first attempt returned SegsHello, of confidence -0.1 and so
\* not below the threshold, has made that one call, has ended and answers
\* "Hello, thanks for calling." with confidence -0.1.
C25_NoRetryScenario ==
    LET first == TranscribeResult(SegsHello)
    IN  /\ RawText(SegsHello) = ThanksForCalling
        /\ _deduplicate_text(ThanksForCalling) = ThanksForCalling
        /\ first.avg_logprob >= WHISPER_RETRY_LOGPROB_THRESHOLD
        /\ \A r \in Requests :
            (FirstReturned(r) /\ calls[r][1].result = first)
                => /\ Len(calls[r]) = 1
                   /\ pc[r] = "done"
                   /\ response[r] = JSONResponse(
                          [text |-> ThanksForCalling, avg_logprob |-> -10000])

\* The greeting has been answered by the raw-body handler.
C25_Witness ==
    \E r \in Requests :
        /\ endpoint[r] = "transcribe"
        /\ pc[r] = "done"
        /\ Len(calls[r]) = 1
        /\ calls[r][1].outcome = "returned"
        /\ response[r].status = 200
        /\ response[r].result.text = ThanksForCalling

(***************************************************************************)
(* The two entry points.                                                   *)
(***************************************************************************)
AllReturned(r) ==
    \A i \in 1 .. Len(calls[r]) : calls[r][i].outcome = "returned"

\* C26 (as stated): a raw-body request and a multipart request with the
\* same overrides whose first attempts gave the same result, and whose
\* engine calls all returned, have made as many engine calls and have been
\* given the same answer.
C26_SameResultBothEntryPoints ==
    \A r, q \in Requests :
        (/\ endpoint[r] = "transcribe" /\ endpoint[q] = "transcribe_file"
         /\ pc[r] = "done" /\ pc[q] = "done"
         /\ query[r] = query[q]
         /\ FirstReturned(r) /\ FirstReturned(q)
         /\ calls[r][1].result = calls[q][1].result
         /\ AllReturned(r) /\ AllReturned(q))
            => /\ Len(calls[q]) = Len(calls[r])
               /\ response[q] = response[r]

(***************************************************************************)
(* Slots and leases.                                                       *)
(***************************************************************************)
\* The request is inside `async with transcribe_semaphore`.
HoldsSlot(r) == pc[r] \in {"engine1", "engine2"}

\* The temporary object of the request is there, as the request wrote it,
\* and no removal of it has been run.
LeaseLive(r) ==
    /\ HasLease(r)
    /\ removes[r] = << >>
    /\ store[tmp_path[r]] = File(body[r], r)

\* C27: an engine call in flight is the last call of a request that is
\* inside the gate and whose temporary object, the one the call reads, is
\* live; and the requests inside the gate hold slots of the semaphore, so
\* they are no more than the slots taken from it.
C27_EngineOnlyInsideGate ==
    /\ \A c \in EngineInFlight :
        /\ HoldsSlot(c[1])
        /\ c[2] = Len(calls[c[1]])
        /\ LeaseLive(c[1])
        /\ calls[c[1]][c[2]].args.path = tmp_path[c[1]]
    /\ Cardinality({r \in Requests : HoldsSlot(r)})
           <= MAX_CONCURRENT - transcribe_semaphore.value

\* A retry in flight while another request, its object written, waits for
\* the slot.
C27_Witness ==
    \E r, q \in Requests :
        /\ InFlightOf(r) = {<<r, 2>>}
        /\ pc[q] = "acquire"
        /\ LeaseLive(q)
        /\ calls[q] = << >>

\* A request between the writing of its object and its end.
Leased(r) == pc[r] \in {"acquire", "engine1", "engine2"}

\* Every such request has one object, its own, live, and no two of them the
\* same one.
LeasesDisjoint ==
    /\ \A r \in Requests :
        Leased(r) => (LeaseLive(r) /\ ObjectsOf(r) = {tmp_path[r]})
    /\ \A r, q \in Requests :
        (Leased(r) /\ Leased(q) /\ r # q) => tmp_path[r] # tmp_path[q]

\* An object leaves the store, or changes, only in the step that ends the
\* request that created it.
RemovesOwnObjectOnly ==
    \A p \in Paths :
        (store[p] # NoFile /\ store'[p] # store[p])
            => /\ pc[store[p].owner] # "done"
               /\ pc'[store[p].owner] = "done"

\* C28: every request between the writing of its temporary object and its
\* end owns exactly one object, live; no two such requests have the same
\* one; and a step removes no object but that of the request it ends.
C28_LeaseExclusive == []LeasesDisjoint /\ [][RemovesOwnObjectOnly]_vars

\* One request has ended and removed its object while another, which wrote
\* its own in the meantime, still has it.
C28_Witness ==
    \E r, q \in Requests :
        /\ pc[r] = "done"
        /\ removes[r] = <<"removed">>
        /\ Leased(q)
        /\ LeaseLive(q)
        /\ tmp_path[q] # tmp_path[r]

(***************************************************************************)
(* One request next to the others.                                         *)
(***************************************************************************)
\* How the engine calls of a request ended, and with what.
EngineHistory(r) ==
    [i \in 1 .. Len(calls[r]) |-> <<calls[r][i].outcome, calls[r][i].result>>]

\* C29: the arguments of the engine calls of a request are made of its own
\* temporary object and overrides and of the configuration; two requests on
\* the same endpoint with the same overrides whose first attempts gave the
\* same result have taken the same retry decision; and if all their engine
\* calls ended the same way, with the same results, they have been given
\* the same answer, however their steps were interleaved.
C29_NoHiddenState ==
    /\ \A r \in Requests :
        LET kept == ReqOverrides(endpoint[r], query[r])
        IN  /\ calls[r] # << >> =>
                  calls[r][1].args = EngineArgs(tmp_path[r], body[r],
                                         kept.language, kept.prompt, 0)
            /\ Len(calls[r]) = 2 =>
                  calls[r][2].args = EngineArgs(tmp_path[r], body[r],
                                         kept.language, kept.prompt,
                                         WHISPER_RETRY_BEAM_SIZE)
    /\ \A r, q \in Requests :
        (endpoint[r] = endpoint[q] /\ query[r] = query[q]) =>
            /\ (/\ FirstReturned(r) /\ FirstReturned(q)
                /\ calls[r][1].result = calls[q][1].result)
                    => Len(calls[r]) = Len(calls[q])
            /\ (/\ pc[r] = "done" /\ pc[q] = "done"
                /\ calls[r] # << >>
                /\ EngineHistory(r) = EngineHistory(q))
                    => response[r] = response[q]

\* Two raw-body requests that were there at the same time, with payloads of
\* different sizes, have each made two engine calls that ended the same way
\* and have been given the same answer.
C29_Witness ==
    \E r, q \in Requests :
        /\ r # q
        /\ endpoint[r] = "transcribe" /\ endpoint[q] = "transcribe"
        /\ query[r] = query[q]
        /\ pc[r] = "done" /\ pc[q] = "done"
        /\ Len(calls[r]) = 2
        /\ EngineHistory(r) = EngineHistory(q)
        /\ tmp_path[r] # tmp_path[q]
        /\ body[r] # body[q]
        /\ response[r] = response[q]
        /\ response[r].status = 200

(***************************************************************************)
(* The order of the steps of a request.                                    *)
(***************************************************************************)
\* From where to where a handler goes in one step: received, payload read
\* and object written (waiting for a slot or inside the gate at once),
\* first call, retry, end.
PcSteps ==
    {<<"new", "body">>, <<"new", "done">>,
     <<"body", "acquire">>, <<"body", "engine1">>, <<"body", "done">>,
     <<"acquire", "engine1">>,
     <<"engine1", "engine2">>, <<"engine1", "done">>,
     <<"engine2", "done">>}

\* All the state of one request.
OwnState(r) ==
    <<pc[r], endpoint[r], body[r], tmp_path[r], query[r], calls[r],
      response[r], removes[r]>>

Waiting(r) ==
    \E i \in 1 .. Len(transcribe_semaphore.waiters) :
        transcribe_semaphore.waiters[i].req = r

\* A request that waits for a slot, is inside the gate or has called the
\* engine has its temporary object's name; a request that made a second call
\* is a raw-body request whose first call returned; a removal has been run
\* for ended requests only, once for each that had an object's name.
LeaseFirst ==
    \A r \in Requests :
        /\ (Waiting(r) \/ Leased(r) \/ calls[r] # << >>) => HasLease(r)
        /\ Len(calls[r]) <= 2
        /\ Len(calls[r]) = 2 =>
              (endpoint[r] = "transcribe" /\ calls[r][1].outcome = "returned")
        /\ pc[r] = "engine2" <=>
              (Len(calls[r]) = 2 /\ calls[r][2].outcome = "pending")
        /\ removes[r] # << >> => pc[r] = "done"
        /\ (pc[r] = "done" /\ HasLease(r)) => Len(removes[r]) = 1

\* A handler goes forward only, and nothing of a request changes once it has
\* ended.
InOrder ==
    \A r \in Requests :
        /\ pc'[r] # pc[r] => <<pc[r], pc'[r]>> \in PcSteps
        /\ pc[r] = "done" => OwnState(r)' = OwnState(r)

\* C30: a request has its temporary object before it asks for a slot and
\* before any engine call; a retry is made only after a first call that
\* returned; the steps go received, object written, first call, retry or
\* end, end; and the removal of the object is run in the step that ends the
\* request, after which nothing of the request changes.
C30_StateOrder == []LeaseFirst /\ [][InOrder]_vars

\* A request that wrote its object next to another request's, made both
\* calls, was answered and removed its object.
C30_Witness ==
    \E r \in Requests :
        /\ pc[r] = "done"
        /\ tmp_path[r] = 2
        /\ Len(calls[r]) = 2
        /\ removes[r] = <<"removed">>
        /\ response[r].status = 200

(***************************************************************************)
(* One slot for both attempts.                                             *)
(***************************************************************************)
\* The requests inside the gate are no more than the worker budget.
C31_InsideGateBounded ==
    Cardinality({r \in Requests : HoldsSlot(r)}) <= MAX_CONCURRENT

\* The step from the first attempt to the retry leaves the semaphore alone
\* and lets nobody into the gate.
C31_SlotKeptAcrossRetry ==
    \A r \in Requests :
        (pc[r] = "engine1" /\ pc'[r] = "engine2")
            => /\ transcribe_semaphore' = transcribe_semaphore
               /\ {q \in Requests : pc'[q] \in {"engine1", "engine2"}}
                      = {q \in Requests : HoldsSlot(q)}

\* C31: a request holds one slot from before its first engine call until
\* after its last: the semaphore is not touched between the first attempt
\* and the retry, nobody enters the gate in that step, and the requests
\* inside the gate never exceed MAX_CONCURRENT.
C31_OneSlotForBothAttempts == []C31_InsideGateBounded /\ [][C31_SlotKeptAcrossRetry]_vars

\* A retry in flight with every slot taken while another request is queued
\* behind it, not woken.
C31_Witness ==
    \E r, q \in Requests :
        /\ pc[r] = "engine2"
        /\ calls[r][1].outcome = "returned"
        /\ transcribe_semaphore.value = 0
        /\ pc[q] = "acquire"
        /\ ~IsWoken(transcribe_semaphore, q)

(***************************************************************************)
(* The weights of the aggregate confidence.                                *)
(***************************************************************************)
\* The weight the claim gives a segment: max(end - start, 0.01 s).
C32_Weight(seg) ==
    IF seg.end - seg.start >= MinSegDur THEN seg.end - seg.start ELSE MinSegDur

C32_SumWeights(segs) ==
    LET sum[i \in 0 .. Len(segs)] ==
            IF i = 0 THEN 0 ELSE sum[i - 1] + C32_Weight(segs[i])
    IN  sum[Len(segs)]

C32_SumWeighted(segs) ==
    LET sum[i \in 0 .. Len(segs)] ==
            IF i = 0 THEN 0
            ELSE sum[i - 1] + C32_Weight(segs[i]) * segs[i].avg_logprob
    IN  sum[Len(segs)]

\* C32: the confidence of an attempt is the mean of its segments'
\* log-probabilities weighted by max(end - start, 0.01 s), as reported, that
\* is to the nearest 1/10000; the total weight of one segment or more is
\* positive whatever their lengths (zero, negative), so the division is
\* defined; without segments the attempt is the result with the empty text
\* and the confidence -1.0.
C32_FlooredWeights ==
    attempt # << >> =>
        IF all_segments = << >>
        THEN attempt[1] = [text |-> << >>, avg_logprob |-> NoSegmentsLogprob]
        ELSE LET v == attempt[1].avg_logprob
                 T == C32_SumWeights(all_segments)
                 W == C32_SumWeighted(all_segments)
             IN  /\ T >= Len(all_segments) * MinSegDur
                 /\ v % 10 = 0
                 /\ 2 * Abs(v * T - W) <= 10 * T

\* A segment of no length followed by one that ends before it starts: each
\* weighs 0.01 s and the attempt reports the mean of the two values.
C32_Witness ==
    /\ all_segments = <<Segment(100, 100, <<"c">>, -80000),
                        Segment(300, 100, <<"h">>, -70000)>>
    /\ attempt # << >>
    /\ attempt[1].avg_logprob = -75000

(***************************************************************************)
(* Overrides and defaults.                                                 *)
(***************************************************************************)
\* A query parameter that was sent and is not empty.
C33_Supplied(x) == x # None /\ x # << >>

\* The first engine call of request r is made with the language and prompt
\* the request was sent with where it has them, with the defaults where it
\* has not, and with the default beam.
C33_FirstCallArgs(r) ==
    calls[r] # << >> =>
        /\ calls[r][1].args.language =
               IF C33_Supplied(query[r].language)
               THEN query[r].language ELSE WHISPER_LANGUAGE
        /\ calls[r][1].args.initial_prompt =
               IF C33_Supplied(query[r].prompt)
               THEN query[r].prompt ELSE WHISPER_INITIAL_PROMPT
        /\ calls[r][1].args.beam_size = WHISPER_BEAM_SIZE

\* No step changes the configuration.
C33_DefaultsKept == WHISPER_RETRY_BEAM_SIZE' = WHISPER_RETRY_BEAM_SIZE

\* C33 (as stated): every request's first engine call is made with the
\* request's language and prompt when they are supplied and non-empty,
\* otherwise with the process-wide defaults, and with the default beam
\* width; and no request modifies the process-wide defaults.
C33_OverridesApplied ==
    [](\A r \in Requests : C33_FirstCallArgs(r)) /\ [][C33_DefaultsKept]_vars

\* C33 for the requests of /transcribe alone.
C33_OverridesAppliedRawBody ==
    /\ [](\A r \in Requests : endpoint[r] = "transcribe" => C33_FirstCallArgs(r))
    /\ [][C33_DefaultsKept]_vars

(***************************************************************************)
(* The result returned.                                                    *)
(***************************************************************************)
\* The results of the engine calls of request r that returned.
C34_Attempts(r) ==
    {calls[r][i].result :
        i \in {j \in 1 .. Len(calls[r]) : calls[r][j].outcome = "returned"}}

\* C34: the result a request answers with is the result of one of its
\* attempts, text and confidence together; and when its retry returned, the
\* confidence answered is the greater of the two attempts' confidences, so
\* not below the first attempt's.
C34_ResultOfOneAttempt ==
    \A r \in Requests :
        response[r].status = 200 =>
            /\ response[r].result \in C34_Attempts(r)
            /\ (Len(calls[r]) = 2 /\ calls[r][2].outcome = "returned") =>
                  /\ response[r].result.avg_logprob =
                         SetMax({a.avg_logprob : a \in C34_Attempts(r)})
                  /\ response[r].result.avg_logprob >= calls[r][1].result.avg_logprob

\* Two attempts with different texts, the retry less confident than the
\* first: the answer is the first attempt's text with its confidence.
C34_Witness ==
    \E r \in Requests :
        /\ response[r].status = 200
        /\ Len(calls[r]) = 2
        /\ calls[r][2].outcome = "returned"
        /\ calls[r][2].result.text # calls[r][1].result.text
        /\ calls[r][2].result.avg_logprob < calls[r][1].result.avg_logprob
        /\ response[r].result = calls[r][1].result

(***************************************************************************)
(* Conservation of the slots.                                              *)
(***************************************************************************)
\* The request has a slot: it is inside the async with block, or release()
\* has handed it the slot (its future is done and the counter was taken
\* down for it) and it has not run yet.
C35_InsideGate(r) ==
    \/ HoldsSlot(r)
    \/ pc[r] = "acquire" /\ IsWoken(transcribe_semaphore, r)

C35_Conserved ==
    /\ transcribe_semaphore.value \in 0 .. MAX_CONCURRENT
    /\ transcribe_semaphore.value + Cardinality({r \in Requests : C35_InsideGate(r)})
           = MAX_CONCURRENT
    /\ (\A r \in Requests : pc[r] \notin {"acquire", "engine1", "engine2"})
           => transcribe_semaphore = [value |-> MAX_CONCURRENT, waiters |-> << >>]

\* A request that leaves the gate ends, and its slot is free again or is
\* another request's.
C35_GivenBack ==
    \A r \in Requests :
        (HoldsSlot(r) /\ ~(pc'[r] \in {"engine1", "engine2"})) =>
            /\ pc'[r] = "done"
            /\ \/ transcribe_semaphore'.value = transcribe_semaphore.value + 1
               \/ \E q \in Requests \ {r} :
                    /\ ~IsWoken(transcribe_semaphore, q)
                    /\ IsWoken(transcribe_semaphore', q)
                    /\ transcribe_semaphore'.value = transcribe_semaphore.value

\* C35: the free slots are never fewer than none nor more than
\* MAX_CONCURRENT, the free slots and the requests that have one add up to
\* MAX_CONCURRENT in every state, every way out of the gate gives the slot
\* back, and with no request at or inside the gate every slot is free.
C35_SlotsConserved == []C35_Conserved /\ [][C35_GivenBack]_vars

\* Every request has ended, one of them with its client gone and its retry
\* failed, and every slot is free.
C35_Witness ==
    /\ \A r \in Requests : pc[r] = "done"
    /\ transcribe_semaphore.value = MAX_CONCURRENT
    /\ \E r \in Requests :
        /\ disconnected[r]
        /\ Len(calls[r]) = 2
        /\ calls[r][2].outcome = "raised"
        /\ response[r].status = 500

(***************************************************************************)
(* Removal after the last engine call.                                     *)
(***************************************************************************)
\* The objects that engine calls in flight are reading.
C36_BeingRead ==
    {calls[c[1]][c[2]].args.path : c \in EngineInFlight}

\* What an engine call in flight reads is in the store, as its request wrote
\* it, and its request has run no removal.
C36_ReadIntact ==
    \A c \in EngineInFlight :
        LET r == c[1]
            a == calls[r][c[2]].args
        IN  /\ store[a.path] = File(a.size, r)
            /\ removes[r] = << >>

\* A step that runs a removal for a request, or takes an object out of the
\* store, leaves no call of that request in flight, and the object is one
\* that no call in flight reads, before the step or after it, but for the
\* call of the request itself that ended in this step.
C36_RemovedAfterLastCall ==
    /\ \A r \in Requests :
        removes'[r] # removes[r] =>
            /\ \A i \in 1 .. Len(calls'[r]) : calls'[r][i].outcome # "pending"
            /\ pc'[r] = "done"
    /\ \A p \in Paths :
        (store[p] # NoFile /\ store'[p] = NoFile) =>
            /\ p \notin {calls'[c[1]][c[2]].args.path :
                           c \in {d \in Requests \X {1, 2} :
                                    /\ d[2] <= Len(calls'[d[1]])
                                    /\ calls'[d[1]][d[2]].outcome = "pending"}}
            /\ \A c \in EngineInFlight :
                   calls[c[1]][c[2]].args.path = p => c[1] = store[p].owner

\* C36: the temporary object of a request is not deleted while an engine
\* call reading it is in flight: every call in flight finds its object
\* intact, and the removal of the cleanup step is run only in a step after
\* which no call of the request is pending, whether or not the client went
\* away during a call.
C36_NoRemovalUnderEngine == []C36_ReadIntact /\ [][C36_RemovedAfterLastCall]_vars

\* The client went away during the retry; the retry returned; the object
\* was removed then, another request's call being in flight on its own
\* object.
C36_Witness ==
    \E r, q \in Requests :
        /\ disconnected[r]
        /\ Len(calls[r]) = 2
        /\ calls[r][2].outcome = "returned"
        /\ removes[r] = <<"removed">>
        /\ store[tmp_path[r]] = NoFile
        /\ InFlightOf(q) # {}
        /\ C36_BeingRead # {}

(***************************************************************************)
(* A retry beam that is not wider.                                         *)
(***************************************************************************)
\* C37: with a retry beam not strictly greater than the initial beam, no
\* retry is run: every request calls the engine once at most, and a request
\* whose call returned answers with that call's result, whatever its
\* confidence.
C37_NoRetryWithoutWiderBeam ==
    WHISPER_RETRY_BEAM_SIZE <= WHISPER_BEAM_SIZE =>
        \A r \in Requests :
            /\ Len(calls[r]) <= 1
            /\ pc[r] # "engine2"
            /\ (pc[r] = "done" /\ FirstReturned(r)) =>
                  response[r] = JSONResponse(calls[r][1].result)

\* The retry beam equals the initial beam; a raw-body request whose only
\* attempt gave a text with a confidence below the threshold has answered
\* with it.
C37_Witness ==
    /\ WHISPER_RETRY_BEAM_SIZE = WHISPER_BEAM_SIZE
    /\ \E r \in Requests :
        /\ endpoint[r] = "transcribe"
        /\ pc[r] = "done"
        /\ Len(calls[r]) = 1
        /\ calls[r][1].result.avg_logprob < WHISPER_RETRY_LOGPROB_THRESHOLD
        /\ Strip(calls[r][1].result.text) # << >>
        /\ response[r] = JSONResponse(calls[r][1].result)

(***************************************************************************)
(* control-plane/legacy/voice/whisper.py: the legacy /transcribe endpoint. *)
(* It has no gate and no await after the payload was read: the temporary   *)
(* file, the engine call (made on the event loop itself), the removal and  *)
(* the response are one step.  Its answer {"text": text} has no            *)
(* confidence: avg_logprob keeps the value it has in NoResult.             *)
(***************************************************************************)
\* model.transcribe(tmp_path, beam_size=5, language=None), as it ended.
LegacyCall(path, size, outcome, segs) ==
    [args |-> [path |-> path, size |-> size, beam_size |-> 5, language |-> None],
     outcome |-> outcome,
     result |-> IF outcome = "returned"
                THEN [NoResult EXCEPT !.text = RawText(segs)]
                ELSE NoResult]

\* The request arrives and the handler awaits its payload.
LegacyStart(r) ==
    /\ pc[r] = "new"
    /\ endpoint' = [endpoint EXCEPT ![r] = "transcribe"]
    /\ pc' = [pc EXCEPT ![r] = "body"]
    /\ UNCHANGED <<body, tmp_path, query, calls, response, removes,
                   disconnected, transcribe_semaphore, store,
                   WHISPER_RETRY_BEAM_SIZE, functions>>

\* The rest of the handler: every exception is answered by
\* JSONResponse({"error": str(e)}, status_code=500), and os.remove is the
\* statement before the return.
LegacyTranscribe(r) ==
    /\ pc[r] = "body"
    /\ pc' = [pc EXCEPT ![r] = "done"]
    /\ \E size \in BodySizes(r), fault \in CreateFaults(r) :
        LET path == FreshPath(store)
        IN  /\ body' = [body EXCEPT ![r] = size]
            /\ CASE fault = "create" ->
                    /\ response' = [response EXCEPT ![r] = ErrorResponse("create", 500)]
                    /\ UNCHANGED <<tmp_path, calls, removes, store>>
                 [] fault = "write" ->
                    \* the file exists, tmp_path was not assigned
                    /\ store' = [store EXCEPT ![path] = File(0, r)]
                    /\ response' = [response EXCEPT ![r] = ErrorResponse("write", 500)]
                    /\ UNCHANGED <<tmp_path, calls, removes>>
                 [] OTHER ->
                    /\ tmp_path' = [tmp_path EXCEPT ![r] = path]
                    /\ \/ \* the engine raises
                          /\ calls' = [calls EXCEPT ![r] =
                                 <<LegacyCall(path, size, "raised", << >>)>>]
                          /\ store' = [store EXCEPT ![path] = File(size, r)]
                          /\ response' = [response EXCEPT ![r] =
                                 ErrorResponse("engine", 500)]
                          /\ UNCHANGED removes
                       \/ \* the engine returns its segments
                          \E segs \in EngineOutputs(r), rm \in RemoveFaults(r) :
                            /\ calls' = [calls EXCEPT ![r] =
                                   <<LegacyCall(path, size, "returned", segs)>>]
                            /\ removes' = [removes EXCEPT ![r] =
                                   <<IF rm = "none" THEN "removed" ELSE "OSError">>]
                            /\ store' = IF rm = "none" THEN store
                                        ELSE [store EXCEPT ![path] = File(size, r)]
                            /\ response' = [response EXCEPT ![r] =
                                   IF rm = "none"
                                   THEN JSONResponse(calls'[r][1].result)
                                   ELSE ErrorResponse("remove", 500)]
    /\ UNCHANGED <<endpoint, query, disconnected, transcribe_semaphore,
                   WHISPER_RETRY_BEAM_SIZE, functions>>

LegacyNext == \E r \in Requests : LegacyStart(r) \/ LegacyTranscribe(r)

LegacySpec == Init /\ [][LegacyNext]_vars

\* C38 (as stated): a request of the legacy endpoint that has ended has
\* left no temporary file, whichever way it ended, so also when the engine
\* raised and the answer is a 500.
C38_LegacyFileRemoved ==
    \A r \in Requests : pc[r] = "done" => ObjectsOf(r) = {}

\* What the code does: the file is gone exactly when the answer is a 200;
\* after an engine failure the answer is a 500 and the file stays.
C38_LegacyFileRemovedOnSuccessOnly ==
    \A r \in Requests :
        (pc[r] = "done" /\ tmp_path[r] # NoPath) =>
            (ObjectsOf(r) = {} <=> response[r].status = 200)

(***************************************************************************)
(* veralux-audio-stack/xtts_server.py: resolve_speaker_wav.                *)
(* A path is a text; the disk is the set of paths that are regular files   *)
(* and the set of paths that are directories.                              *)
(***************************************************************************)
VOICES_DIR == <<"/", "v">>

\* The characters of the model's paths in the order of their code points,
\* which is the order sorted() compares texts by.
CodePoints ==
    <<".", "/", "A", "B", "V", "W", "_", "a", "b", "c", "d", "e", "f", "i",
      "l", "n", "o", "s", "t", "u", "v", "w", "x">>

\* a < b for two texts.
RECURSIVE Before(_, _)
Before(a, b) ==
    LET Ord(c) == CHOOSE i \in 1 .. Len(CodePoints) : CodePoints[i] = c
    IN  IF b = << >> THEN FALSE
        ELSE IF a = << >> THEN TRUE
        ELSE IF Head(a) # Head(b) THEN Ord(Head(a)) < Ord(Head(b))
        ELSE Before(Tail(a), Tail(b))

EndsWith(s, end) ==
    Len(end) <= Len(s) /\ Slice(s, Len(s) - Len(end) + 1, Len(s)) = end

\* os.path.join(a, b)
PathJoin(a, b) ==
    IF StartsWith(b, <<"/">>) THEN b
    ELSE IF a = << >> \/ EndsWith(a, <<"/">>) THEN a \o b
    ELSE a \o <<"/">> \o b

\* os.listdir(dir)
ListDir(files, dir) ==
    LET under == {p \in files.regular \cup files.dirs :
                    /\ StartsWith(p, dir \o <<"/">>)
                    /\ Len(p) > Len(dir) + 1}
        names == {Slice(p, Len(dir) + 2, Len(p)) : p \in under}
    IN  {n \in names : \A i \in 1 .. Len(n) : n[i] # "/"}

_first_wav_in_voices_dir(files) ==
    LET wavs == {f \in ListDir(files, VOICES_DIR) :
                    EndsWith(Lower(f), <<".", "w", "a", "v">>)}
    IN  IF VOICES_DIR \notin files.dirs THEN None
        ELSE IF wavs = {} THEN None
        ELSE PathJoin(VOICES_DIR,
                      CHOOSE f \in wavs : \A g \in wavs \ {f} : Before(f, g))

\* (mutant) default_voice.wav looked for before the voice of the request
resolve_speaker_wav_DefaultFirst(r, files) ==
    LET exists(p) == p \in files.regular \cup files.dirs
        voice_id == OrElse(r.voice_id, r.speaker)
        candidate == PathJoin(VOICES_DIR, voice_id \o <<".", "w", "a", "v">>)
        fallback == PathJoin(VOICES_DIR, <<"d", "e", "f", "a", "u", "l", "t", "_",
                                           "v", "o", "i", "c", "e", ".", "w", "a", "v">>)
        first == _first_wav_in_voices_dir(files)
    IN  IF Truthy(r.speaker_wav) /\ r.speaker_wav \in files.regular
        THEN r.speaker_wav
        ELSE IF exists(fallback) THEN fallback
        ELSE IF Truthy(voice_id) /\ exists(candidate) THEN candidate
        ELSE IF Truthy(first) THEN first
        ELSE None

resolve_speaker_wav(r, files) ==
    LET exists(p) == p \in files.regular \cup files.dirs
        voice_id == OrElse(r.voice_id, r.speaker)
        candidate == PathJoin(VOICES_DIR, voice_id \o <<".", "w", "a", "v">>)
        fallback == PathJoin(VOICES_DIR, <<"d", "e", "f", "a", "u", "l", "t", "_",
                                           "v", "o", "i", "c", "e", ".", "w", "a", "v">>)
        first == _first_wav_in_voices_dir(files)
    IN  IF Truthy(r.speaker_wav) /\ r.speaker_wav \in files.regular
        THEN r.speaker_wav
        ELSE IF Truthy(voice_id) /\ exists(candidate) THEN candidate
        ELSE IF exists(fallback) THEN fallback
        ELSE IF Truthy(first) THEN first
        ELSE None

\* The requests resolve_speaker_wav is applied to: speaker_wav absent, empty
\* or a path; voice_id absent, empty or a name; speaker absent or a name.
TTSRequests ==
    [speaker_wav : {None, << >>, <<"/", "s", ".", "w", "a", "v">>},
     voice_id : {None, << >>, <<"a">>, <<"c">>},
     speaker : {None, <<"b">>}]

\* The disks it is applied to: any of five entries in the voices directory,
\* if there is one, and the explicit path a file, a directory or nothing.
Disks ==
    LET entries == {<<"a", ".", "w", "a", "v">>, <<"b", ".", "w", "a", "v">>,
                    <<"B", ".", "W", "A", "V">>, <<"n", ".", "t", "x", "t">>,
                    <<"d", "e", "f", "a", "u", "l", "t", "_", "v", "o", "i", "c",
                      "e", ".", "w", "a", "v">>}
        explicit == <<"/", "s", ".", "w", "a", "v">>
        all == {[regular |-> {PathJoin(VOICES_DIR, n) : n \in in_dir} \cup file,
                 dirs |-> dirs] :
                    in_dir \in SUBSET entries,
                    file \in SUBSET {explicit},
                    dirs \in SUBSET {VOICES_DIR, explicit}}
    IN  {d \in all :
            /\ d.regular \cap d.dirs = {}        \* a path is one thing
            /\ (d.regular \ {explicit}) # {} => VOICES_DIR \in d.dirs}

ResolveInit ==
    /\ ServerInit
    /\ content_type = None
    /\ filename = None
    /\ suffix = None
    /\ text = None
    /\ deduped = << >>
    /\ all_segments = None
    /\ attempt = << >>
    /\ req \in TTSRequests
    /\ disk \in Disks
    /\ speaker_wav = << >>

\* speaker_wav = resolve_speaker_wav(req)
Resolve ==
    /\ speaker_wav = << >>
    /\ speaker_wav' = <<resolve_speaker_wav(req, disk)>>
    /\ UNCHANGED <<server, content_type, filename, suffix, text, deduped,
                   all_segments, attempt, req, disk>>

ResolveSpec == ResolveInit /\ [][Resolve]_vars

(***************************************************************************)
(* The priority of the speaker sources.                                    *)
(***************************************************************************)
C39_InVoices(name) == <<"/", "v", "/">> \o name

C39_There(p) == p \in disk.regular \cup disk.dirs

\* The four sources, from the first to the last, each with whether it is
\* available and the path it stands for.
C39_Sources ==
    LET id == IF req.voice_id \notin {None, << >>} THEN req.voice_id
              ELSE req.speaker
        voice == C39_InVoices(id \o <<".", "w", "a", "v">>)
        default == C39_InVoices(<<"d", "e", "f", "a", "u", "l", "t", "_", "v", "o",
                                  "i", "c", "e", ".", "w", "a", "v">>)
        wavs == {p \in disk.regular \cup disk.dirs :
                    /\ Len(p) > 7
                    /\ SubSeq(p, 1, 3) = <<"/", "v", "/">>
                    /\ Lower(SubSeq(p, Len(p) - 3, Len(p))) = <<".", "w", "a", "v">>}
    IN  << [ok |-> req.speaker_wav \notin {None, << >>}
                     /\ req.speaker_wav \in disk.regular,
            path |-> req.speaker_wav],
           [ok |-> id \notin {None, << >>} /\ C39_There(voice),
            path |-> IF id \in {None, << >>} THEN None ELSE voice],
           [ok |-> C39_There(default), path |-> default],
           [ok |-> <<"/", "v">> \in disk.dirs /\ wavs # {},
            path |-> IF wavs = {} THEN None
                     ELSE CHOOSE p \in wavs : \A q \in wavs : p = q \/ Before(p, q)] >>

\* C39: the speaker resolved is that of the first available source in the
\* order explicit speaker_wav file, voices/<voice_id or speaker>.wav,
\* voices/default_voice.wav, first .wav of the voices directory in sorted
\* order, so a source is used only when every source before it is
\* unavailable; the result is None exactly when no source is available,
\* and otherwise a path that is there.
C39_SpeakerPriority ==
    speaker_wav # << >> =>
        LET avail == {k \in 1 .. 4 : C39_Sources[k].ok}
        IN  /\ speaker_wav[1] = None <=> avail = {}
            /\ avail # {} =>
                  /\ speaker_wav[1] = C39_Sources[SetMin(avail)].path
                  /\ C39_There(speaker_wav[1])

\* The explicit path is a directory, the voice asked for has no file (the
\* speaker's has one, and is not tried), there is no default voice: the
\* first .wav of the directory is returned, which is B.WAV before a.wav.
C39_Witness ==
    /\ speaker_wav = << <<"/", "v", "/", "B", ".", "W", "A", "V">> >>
    /\ req = [speaker_wav |-> <<"/", "s", ".", "w", "a", "v">>,
              voice_id |-> <<"c">>, speaker |-> <<"b">>]
    /\ <<"/", "s", ".", "w", "a", "v">> \in disk.dirs
    /\ <<"/", "v", "/", "a", ".", "w", "a", "v">> \in disk.regular
    /\ <<"/", "v", "/", "b", ".", "w", "a", "v">> \in disk.regular

====
